---- MODULE Spec2Model ----
(***************************************************************************)
(* Partition lifecycle and selection of the datetime-partitioned item      *)
(* indices (stac_fastapi.sfeos_helpers.search_engine), blocking variant.   *)
(*                                                                         *)
(* A day is an integer; an item datetime is a day plus a time of day.      *)
(* An item alias "<collection>_<start>" or "<collection>_<start>-<end>" is  *)
(* the sequence of the days embedded in it: <<start>> is an open alias,    *)
(* <<start, end>> a closed one.  The physical index "items_<collection>_   *)
(* <start>" is named by the collection and the sequence <<start>>.         *)
(* Python's string order on aliases of one collection is the lexicographic *)
(* order on these sequences (ISO dates have a fixed width).                *)
(*                                                                         *)
(* One writer runs get_target_index and prepare_bulk_actions one call at a *)
(* time; every engine call and every read of the alias cache is one step.  *)
(* The answer of an index stats query is free (any partition may have      *)
(* outgrown the budget); the query raises when no alias of that name       *)
(* exists, and the error ends the write.  A batch holds at least one item; *)
(* every item carries a datetime, except in the specification of the       *)
(* writes of items that lack one.                                          *)
(***************************************************************************)
EXTENDS Integers, Sequences, FiniteSets, TLC

MaxDate == 3
MaxBatch == 3
Collections == {"c1"}

Dates == 1..MaxDate
Times == {"00:00", "12:00"}
Datetimes == [day : Dates, time : Times]

\* A bound that a datetime range does not give (datetime_search.get -> None).
NoDatetime == [day |-> 0, time |-> "none"]

NoAlias == <<>>
NoSplit == [split |-> FALSE, split_date |-> 0, new_index |-> NoAlias]

(***************************************************************************)
(* Pure helpers                                                            *)
(***************************************************************************)

\* database.extract_date: the calendar day of an ISO datetime string.
extract_date(dt) == dt.day

\* database.extract_date given no datetime string (None or ""): it raises an
\* error of its own, which is not the bad-request error of the validation.
ExtractDateRaises(dt) == dt = NoDatetime

\* database.extract_first_date_from_index: the first date embedded in a name.
extract_first_date_from_index(alias) == alias[1]

\* str.__lt__ on two alias names of one collection.
Before(a, b) ==
    \E k \in 1..(Len(a) + 1) :
        /\ \A j \in 1..(k - 1) : j <= Len(b) /\ a[j] = b[j]
        /\ \/ k = Len(a) + 1 /\ Len(b) >= k
           \/ k <= Len(a) /\ k <= Len(b) /\ a[k] < b[k]

\* all_indexes.sort(); all_indexes[0]
FirstIndex(all) == CHOOSE a \in all : \A b \in all : a = b \/ Before(a, b)

LastIndex_First(all) == FirstIndex(all)

\* all_indexes.sort(); all_indexes[-1]
LastIndex(all) == CHOOSE a \in all : \A b \in all : a = b \/ Before(b, a)

IsOpen(alias) == Len(alias) = 1
IsClosed(alias) == Len(alias) = 2

\* The start dates of the partitions that follow partition p in the list.
LaterStarts(indexes, p) ==
    {extract_first_date_from_index(q) : q \in
        {x \in indexes : extract_first_date_from_index(x) > extract_first_date_from_index(p)}}

HasNext(indexes, p) == LaterStarts(indexes, p) # {}

NextStart(indexes, p) ==
    CHOOSE s \in LaterStarts(indexes, p) : \A t \in LaterStarts(indexes, p) : s <= t

\* database.filter_indexes_by_datetime: the partitions whose range
\* [start, next start) meets [gte, lte], compared by day; a bound that is
\* not given does not restrict.
filter_indexes_by_datetime(indexes, gte, lte) ==
    {p \in indexes :
        /\ (lte # NoDatetime => extract_first_date_from_index(p) <= extract_date(lte))
        /\ (gte # NoDatetime /\ HasNext(indexes, p)
                => NextStart(indexes, p) > extract_date(gte))}

(***************************************************************************)
(* The search engine: the set of (collection, index name, item alias)      *)
(* triples.  Every index also carries its collection alias.  Creating an   *)
(* index that exists changes nothing; removing an alias that an index does *)
(* not carry changes nothing; indices are never deleted.                   *)
(***************************************************************************)

IndexExists(eng, c, name) == \E r \in eng : r.c = c /\ r.i = name

AliasExists(eng, c, alias) == \E r \in eng : r.c = c /\ r.a = alias

\* Mutant: an existing index is replaced by a new one under its open alias.
create_datetime_index_sync_Recreates(eng, c, start_date) ==
    {r \in eng : ~(r.c = c /\ r.i = <<start_date>>)}
        \cup {[c |-> c, i |-> <<start_date>>, a |-> <<start_date>>]}

\* indices.create(index, aliases) with "already exists" ignored; the adapter
\* returns the alias name, which is the index name without the prefix.
create_datetime_index_sync(eng, c, start_date) ==
    IF IndexExists(eng, c, <<start_date>>)
    THEN eng
    ELSE eng \cup {[c |-> c, i |-> <<start_date>>, a |-> <<start_date>>]}

\* Mutant: the request adds the new alias but does not remove the old one.
update_index_alias_sync_KeepsOld(eng, c, end_date, old_alias) ==
    eng \cup {[c |-> c, i |-> old_alias, a |-> Append(old_alias, end_date)]}

\* index = ITEMS_INDEX_PREFIX + old_alias; new_alias = old_alias-end_date;
\* one request removes old_alias from, and adds new_alias to, that index.
update_index_alias_sync(eng, c, end_date, old_alias) ==
    (eng \ {[c |-> c, i |-> old_alias, a |-> old_alias]})
        \cup {[c |-> c, i |-> old_alias, a |-> Append(old_alias, end_date)]}

\* Mutant: the request replaces whatever item alias the index carries.
update_index_alias_Replaces(eng, c, end_date, old_alias) ==
    {r \in eng : ~(r.c = c /\ r.i = old_alias)}
        \cup {[c |-> c, i |-> old_alias, a |-> Append(old_alias, end_date)]}

\* The non-blocking forms issue the same requests as the blocking ones.
update_index_alias(eng, c, end_date, old_alias) ==
    (eng \ {[c |-> c, i |-> old_alias, a |-> old_alias]})
        \cup {[c |-> c, i |-> old_alias, a |-> Append(old_alias, end_date)]}

create_datetime_index(eng, c, start_date) ==
    IF IndexExists(eng, c, <<start_date>>)
    THEN eng
    ELSE eng \cup {[c |-> c, i |-> <<start_date>>, a |-> <<start_date>>]}

\* SyncIndexAliasLoader.load_aliases: collection alias -> item aliases.
load_aliases(eng) == [c \in Collections |-> {r.a : r \in {x \in eng : x.c = c}}]

EmptyData == [c \in Collections |-> {}]
NoCache == [fresh |-> FALSE, data |-> EmptyData]

\* SyncIndexAliasLoader.get_aliases: the cached snapshot if fresh, else a load.
get_aliases(ch, eng) == IF ch.fresh THEN ch.data ELSE load_aliases(eng)

\* IndexCacheManager.set_cache as left behind by get_aliases / refresh_aliases.
CacheAfterGet(ch, eng) == [fresh |-> TRUE, data |-> get_aliases(ch, eng)]
CacheAfterLoad(eng) == [fresh |-> TRUE, data |-> load_aliases(eng)]

(***************************************************************************)
(* State                                                                   *)
(***************************************************************************)
VARIABLES
    engine,            \* alias topology held by the search engine
    cache,             \* IndexCacheManager: fresh snapshot or nothing
    pc,                \* position of the writer
    op,                \* "none", "single" or "bulk"
    ctx,               \* caller of _get_target_index_internal
    coll,              \* collection_id of the running write
    items,             \* datetimes of the items of the running write
    idx,               \* loop position of _create_bulk_actions
    product,           \* datetime of the product being resolved
    check_size,        \* check_size argument of _get_target_index_internal
    target_index,      \* set of aliases joined in the target string
    all_indexes,       \* all_indexes of _get_target_index_internal
    latest_index,      \* latest_index of _handle_index_splitting
    split_info,        \* result of _handle_index_splitting
    actions,           \* targets of the bulk actions built so far
    oversized,         \* answer of the last size query: "unknown", "yes", "no"
    sized_index,       \* the alias whose size was queried
    pre,               \* engine topology when the write started
    nstats,            \* index stats queries issued by the write
    nrollover,         \* rollovers performed by the write
    nwrites,           \* create and update_aliases requests sent by the write
    status,            \* "none", "running", "ok", "error", "bad_request", "abandoned"
    retry_pre,         \* engine topology when the retry of a write started
    wpc,               \* position of each concurrent handle_oversized_index call
    wtarget,           \* target_index of each concurrent call
    wproduct,          \* product_datetime of each concurrent call
    cm_cache,          \* IndexCacheManager._cache
    cm_timestamp,      \* IndexCacheManager._timestamp
    now,               \* the clock read by time.time()
    cm_ticks,          \* advances of the clock so far
    cm_last,           \* the last thing that happened to the cache manager
    cm_got,            \* the last result of get_cache and when it was checked
    cm_hist,           \* the last completed set_cache or clear_cache
    cpc,               \* position of each thread that uses the cache manager
    cload,             \* the load whose snapshot a thread is storing
    cm_nloads,         \* snapshots loaded so far
    cm_stamps,         \* the clock readings taken by the set_cache calls
    sel,               \* the call of an index selector that just returned
    bulk,              \* the last prepare_bulk_actions call of the simple strategy
    lifecycle,         \* a lifecycle operation run in its two variants
    names,             \* the engine as the adapters name its indices and aliases
    obs_cache,         \* the alias cache when the observed write started
    sizing,            \* the last is_index_oversized call and what it met
    singleton,         \* SyncDatetimeBasedIndexSelector._instance and its constructions
    reloads,           \* the non-blocking alias reloads and the snapshot they leave
    pair               \* the single-item write a one-item batch is compared with

topo == <<engine, cache>>
locals == <<op, ctx, coll, items, idx, product, check_size, target_index,
            all_indexes, latest_index, split_info, actions, oversized,
            sized_index, pre, nstats, nrollover, nwrites, status>>
\* Variables that only the specifications of retries use.
retryVars == <<retry_pre>>
\* Variables of the concurrent non-blocking rollovers.
raceVars == <<wpc, wtarget, wproduct>>
\* Variables of the cache manager taken on its own.
cmVars == <<cm_cache, cm_timestamp, now, cm_ticks, cm_last, cm_got, cm_hist>>
cmThreadVars == <<cpc, cload, cm_nloads, cm_stamps>>
\* Variables of the callers that only read or only name partitions.
\* Variables of the size query, the selector's construction, the
\* non-blocking alias reloads and the comparison of the two kinds of write.
lateVars == <<sizing, singleton, reloads, pair>>
auxVars == <<sel, bulk, lifecycle, names, obs_cache, lateVars>>
others == <<retryVars, raceVars, cmVars, cmThreadVars, auxVars>>
vars == <<engine, cache, pc, op, ctx, coll, items, idx, product, check_size,
          target_index, all_indexes, latest_index, split_info, actions,
          oversized, sized_index, pre, nstats, nrollover, nwrites, status, others>>

\* IndexCacheManager.__init__(cache_ttl_seconds = 3600)
cache_ttl_seconds == 3600

\* Optional[Dict]: None, or a mapping (the empty mapping {} included).
EmptyMapping == <<>>
None == [some |-> FALSE, data |-> EmptyMapping]
Some(data) == [some |-> TRUE, data |-> data]

CacheThreads == {"w1", "w2", "r"}
CacheWriters == {"w1", "w2"}

\* IndexCacheManager.__init__: nothing cached, timestamp 0; the clock reads
\* more than one TTL past its origin.
InitCacheManager ==
    /\ cm_cache = None
    /\ cm_timestamp = 0
    /\ now = cache_ttl_seconds + 1
    /\ cm_ticks = 0
    /\ cm_last = "none"
    /\ cm_got = [after |-> "none", at |-> 0, result |-> None]
    /\ cm_hist = [kind |-> "none", data |-> EmptyMapping, at |-> 0]
    /\ cpc = [t \in CacheThreads |-> "idle"]
    /\ cload = [t \in CacheThreads |-> 0]
    /\ cm_nloads = 0
    /\ cm_stamps = {}

Writers == {1, 2}

\* No non-blocking rollover is in flight.
InitRollers ==
    /\ wpc = [w \in Writers |-> "none"]
    /\ wtarget = [w \in Writers |-> NoAlias]
    /\ wproduct = [w \in Writers |-> CHOOSE dt \in Datetimes : TRUE]

\* The blocking writer is idle and has not written yet.
InitWriter ==
    /\ pc = "idle"
    /\ op = "none"
    /\ ctx = "none"
    /\ coll = CHOOSE c \in Collections : TRUE
    /\ items = <<>>
    /\ idx = 0
    /\ product = CHOOSE dt \in Datetimes : TRUE
    /\ check_size = FALSE
    /\ target_index = {}
    /\ all_indexes = {}
    /\ latest_index = NoAlias
    /\ split_info = NoSplit
    /\ actions = <<>>
    /\ oversized = "unknown"
    /\ sized_index = NoAlias
    /\ pre = {}
    /\ nstats = 0
    /\ nrollover = 0 /\ nwrites = 0
    /\ status = "none"
    /\ retry_pre = {}

\* A datetime range of a search: each bound is a datetime or is not given.
NoRange == [gte |-> NoDatetime, lte |-> NoDatetime]

\* Optional[List[str]]: None, or a list of collection ids.
NoIds == [given |-> FALSE, list |-> <<>>]
Ids(list) == [given |-> TRUE, list |-> list]

\* No call of a selector is being looked at.
NoCall == [op |-> "none", ids |-> NoIds, rng |-> NoRange,
           result |-> [kind |-> "none", names |-> {}],
           loads |-> 0, reads |-> 0,
           before |-> [cache |-> None, timestamp |-> 0]]

\* prepare_bulk_actions has not been called.
NoBulk == [called |-> FALSE, collection_id |-> "none", items |-> <<>>, actions |-> <<>>]

\* No lifecycle operation has been run.
NoTrace == [calls |-> <<>>, raised |-> FALSE, ret |-> NoAlias, engine |-> {}]
NoLifecycle == [op |-> [name |-> "none"], blocking |-> NoTrace, nonblocking |-> NoTrace]

\* The adapters have not been called: the engine holds no index.
NoNames == [engine |-> {}, returned |-> {}, ncalls |-> 0, last |-> [op |-> "none"]]

\* is_index_oversized has not been called.
NoSizing == [called |-> FALSE]

\* The threads of one process that construct the selector, and the clients
\* they construct it with.
SelectorThreads == {"t1", "t2"}
SelectorClients == {"k1", "k2"}

\* SyncDatetimeBasedIndexSelector._instance is None: no selector object and
\* no cache manager exists, and no thread is constructing one.  Objects and
\* cache managers are numbered in the order of their creation, 0 is None or
\* a missing attribute.
NoInstance ==
    [instance |-> 0, objs |-> <<>>, ncm |-> 0, loaded |-> {},
     tpc |-> [t \in SelectorThreads |-> "idle"],
     tself |-> [t \in SelectorThreads |-> 0],
     tclient |-> [t \in SelectorThreads |-> "none"],
     returned |-> {}, nconstructions |-> 0, reload_client |-> "none",
     overlapped |-> FALSE]

\* The coroutines of one event loop that reload the aliases.
ReloadTasks == {"r1", "r2"}

\* No alias reload has been started.
NoReloads ==
    [rpc |-> [t \in ReloadTasks |-> "idle"],
     response |-> [t \in ReloadTasks |-> EmptyData],
     nsent |-> 0, nchanges |-> 0, read_since_change |-> FALSE]

\* No single-item write is kept for a comparison.
NoPair == [kept |-> FALSE, engine |-> {}, target |-> {}, oversized |-> "unknown"]

InitAux ==
    /\ sel = NoCall
    /\ bulk = NoBulk
    /\ lifecycle = NoLifecycle
    /\ names = NoNames
    /\ obs_cache = NoCache
    /\ sizing = NoSizing
    /\ singleton = NoInstance
    /\ reloads = NoReloads
    /\ pair = NoPair

Init ==
    /\ engine = {}
    /\ cache = NoCache
    /\ InitWriter
    /\ InitRollers
    /\ InitCacheManager
    /\ InitAux


(***************************************************************************)
(* Decisions of the lifecycle manager and of the insertion strategy        *)
(***************************************************************************)

\* The one alias named by a target string that is not comma-joined.
TheAlias(t) == CHOOSE a \in t : TRUE

\* Mutant: the same-day guard of handle_oversized_index_sync is missing.
OversizedNeedsSplit_Always(alias, dt) == TRUE

\* handle_oversized_index_sync: a split happens unless the product's day is
\* the start day of the oversized index.
OversizedNeedsSplit(alias, dt) ==
    extract_date(dt) # extract_first_date_from_index(alias)

\* handle_oversized_index_sync: end date given to the closed alias.
OversizedEndDate(alias, dt) == extract_date(dt)

\* Mutant: the new index starts on the product's day instead of the day after.
OversizedNextStart_SameDay(alias, dt) == extract_date(dt)

\* handle_oversized_index_sync: start date of the index created by the split.
OversizedNextStart(alias, dt) == extract_date(dt) + 1

\* Mutant: the early index is closed on the start day of the next index.
EarlyEndDate_NoDayBefore(end_date) == end_date

\* handle_early_date_sync: end date given to the early index's alias.
EarlyEndDate(end_date) == end_date - 1

\* Mutant: the same-day guard of _create_new_index_for_split is missing.
SplitNeeded_Always(latest, first_item) == TRUE

\* _create_new_index_for_split: first_item_date != current_index_end_date.
SplitNeeded(latest, first_item) ==
    extract_date(first_item) # extract_first_date_from_index(latest)

\* _create_new_index_for_split: current_index_end_date.
SplitDate(latest, first_item) == extract_first_date_from_index(latest)

\* _create_new_index_for_split: next_day_start.
SplitNextStart(latest, first_item) == SplitDate(latest, first_item) + 1

\* Mutant: items dated on the split date go to the new index as well.
AfterSplit_Inclusive(info, item) == info.split /\ extract_date(item) >= info.split_date

\* _create_bulk_actions: the item goes to split_info["new_index"].
AfterSplit(info, item) == info.split /\ extract_date(item) > info.split_date

\* Mutant: the early return for a target that is not the latest index is missing.
NotLatest_Never(target, all) == FALSE

\* _get_target_index_internal: target_index != all_indexes[-1]
NotLatest(target, all) == target # {LastIndex(all)}

\* Mutant: the batch call sites leave check_size at its default.
CheckSizeBulk_Default == TRUE

\* check_size passed by get_target_index and by the two batch call sites.
CheckSizeSingle == TRUE
CheckSizeBulk == FALSE

(***************************************************************************)
(* Operations                                                              *)
(***************************************************************************)

\* get_target_index(collection_id, product)
StartSingle(c, dt) ==
    /\ pc = "idle"
    /\ pc' = "gti_select"
    /\ op' = "single" /\ ctx' = "single" /\ coll' = c
    /\ items' = <<dt>> /\ idx' = 1 /\ product' = dt
    /\ check_size' = CheckSizeSingle
    /\ target_index' = {} /\ all_indexes' = {} /\ latest_index' = NoAlias
    /\ split_info' = NoSplit /\ actions' = <<>>
    /\ oversized' = "unknown" /\ sized_index' = NoAlias
    /\ pre' = engine /\ nstats' = 0 /\ nrollover' = 0 /\ nwrites' = 0 /\ status' = "running"
    /\ UNCHANGED topo
    /\ UNCHANGED others

\* prepare_bulk_actions(collection_id, items).  The batch is revealed as the
\* code reads it: items[0] here, every further item when the loop of
\* _create_bulk_actions reaches it (NextItem).
StartBulk(c, first_item) ==
    /\ pc = "idle"
    /\ pc' = "ensure"
    /\ op' = "bulk" /\ ctx' = "none" /\ coll' = c
    /\ items' = <<first_item>> /\ idx' = 1 /\ product' = first_item
    /\ check_size' = CheckSizeBulk
    /\ target_index' = {} /\ all_indexes' = {} /\ latest_index' = NoAlias
    /\ split_info' = NoSplit /\ actions' = <<>>
    /\ oversized' = "unknown" /\ sized_index' = NoAlias
    /\ pre' = engine /\ nstats' = 0 /\ nrollover' = 0 /\ nwrites' = 0 /\ status' = "running"
    /\ UNCHANGED topo
    /\ UNCHANGED others

\* The TTL of the snapshot runs out (is_expired becomes true).
Expire ==
    /\ cache.fresh
    /\ cache' = NoCache
    /\ UNCHANGED <<engine, pc>>
    /\ UNCHANGED locals
    /\ UNCHANGED others

\* An engine call raises: the error reaches the caller of the write.
Abort ==
    /\ pc' = "idle"
    /\ status' = "error"
    /\ UNCHANGED <<actions, idx, target_index, items>>

\* _validate_product_datetime raises HTTPException(400): the item has no datetime.
BadRequest ==
    /\ pc' = "idle"
    /\ status' = "bad_request"
    /\ UNCHANGED <<actions, idx, target_index, items>>

\* _create_bulk_actions, "for item in items": the batch ends here and the
\* actions are returned, or it holds one more item.
NextItem ==
    \/ /\ pc' = "idle"
       /\ status' = "ok"
       /\ items' = items
    \/ /\ Len(items) < MaxBatch
       /\ \E dt \in Datetimes : items' = Append(items, dt)
       /\ pc' = "loop"
       /\ status' = status

\* _get_target_index_internal returns t to its caller.
Return(t) ==
    /\ target_index' = t
    /\ CASE ctx = "single" ->
              /\ pc' = "idle"
              /\ actions' = <<t>>
              /\ status' = "ok"
              /\ UNCHANGED <<idx, items>>
         [] ctx = "first" ->
              /\ pc' = IF t = {latest_index} THEN "split_stats" ELSE "loop"
              /\ UNCHANGED <<actions, idx, status, items>>
         [] OTHER ->
              /\ actions' = Append(actions, t)
              /\ idx' = idx + 1
              /\ NextItem

\* _get_target_index_internal, lines 106-109: _validate_product_datetime,
\* then select_indexes([collection_id]).
SelectIndexes ==
    /\ pc = "gti_select"
    /\ IF product = NoDatetime
       THEN BadRequest /\ UNCHANGED cache
       ELSE /\ cache' = CacheAfterGet(cache, engine)
            /\ target_index' =
                  filter_indexes_by_datetime(get_aliases(cache, engine)[coll],
                                             product, product)
            /\ pc' = "gti_all"
            /\ UNCHANGED <<items, idx, actions, status>>
    /\ UNCHANGED <<engine, op, ctx, coll, product, check_size,
                   all_indexes, latest_index, split_info, oversized,
                   sized_index, pre, nstats, nrollover, nwrites>>
    /\ UNCHANGED others

\* _get_target_index_internal, lines 110-131 and 141.
GetCollectionIndexes ==
    /\ pc = "gti_all"
    /\ cache' = CacheAfterGet(cache, engine)
    /\ LET all == get_aliases(cache, engine)[coll] IN
       /\ all_indexes' = all
       /\ IF all = {}
          THEN pc' = "gti_new" /\ UNCHANGED <<actions, idx, status, target_index, items>>
          ELSE IF extract_date(product) < extract_first_date_from_index(FirstIndex(all))
          THEN pc' = "gti_early_create" /\ UNCHANGED <<actions, idx, status, target_index, items>>
          ELSE IF NotLatest(target_index, all)
          THEN Return(target_index)
          ELSE IF check_size
          THEN pc' = "gti_stats" /\ UNCHANGED <<actions, idx, status, target_index, items>>
          ELSE Return(target_index)
    /\ UNCHANGED <<engine, op, ctx, coll, product, check_size,
                   latest_index, split_info, oversized, sized_index, pre,
                   nstats, nrollover, nwrites>>
    /\ UNCHANGED others

\* handle_new_collection_sync
HandleNewCollection ==
    /\ pc = "gti_new"
    /\ engine' = create_datetime_index_sync(engine, coll, extract_date(product))
    /\ target_index' = {<<extract_date(product)>>}
    /\ pc' = "gti_refresh"
    /\ UNCHANGED <<cache, op, ctx, coll, items, idx, product, check_size,
                   all_indexes, latest_index, split_info, actions, oversized,
                   sized_index, pre, nstats, nrollover, status>>
    /\ nwrites' = nwrites + 1
    /\ UNCHANGED others

\* handle_early_date_sync, first call: create_datetime_index_sync(start_date).
HandleEarlyDateCreate ==
    /\ pc = "gti_early_create"
    /\ engine' = create_datetime_index_sync(engine, coll, extract_date(product))
    /\ target_index' = {<<extract_date(product)>>}
    /\ pc' = "gti_early_alias"
    /\ UNCHANGED <<cache, op, ctx, coll, items, idx, product, check_size,
                   all_indexes, latest_index, split_info, actions, oversized,
                   sized_index, pre, nstats, nrollover, status>>
    /\ nwrites' = nwrites + 1
    /\ UNCHANGED others

\* handle_early_date_sync, second call: update_index_alias_sync(end_date - 1).
HandleEarlyDateAlias ==
    /\ pc = "gti_early_alias"
    /\ LET old == TheAlias(target_index)
           end_date == extract_first_date_from_index(FirstIndex(all_indexes)) IN
       IF IndexExists(engine, coll, old)
       THEN /\ engine' = update_index_alias_sync(engine, coll, EarlyEndDate(end_date), old)
            /\ target_index' = {Append(old, EarlyEndDate(end_date))}
            /\ pc' = "gti_refresh"
            /\ UNCHANGED <<actions, idx, status, items>>
       ELSE Abort /\ UNCHANGED engine
    /\ UNCHANGED <<cache, op, ctx, coll, product, check_size,
                   all_indexes, latest_index, split_info, oversized,
                   sized_index, pre, nstats, nrollover>>
    /\ nwrites' = nwrites + 1
    /\ UNCHANGED others

\* is_index_oversized_sync(target_index) and the test in handle_oversized_index_sync.
CheckSize ==
    /\ pc = "gti_stats"
    /\ LET name == TheAlias(target_index) IN
       IF AliasExists(engine, coll, name)
       THEN \E big \in BOOLEAN :
              /\ nstats' = nstats + 1
              /\ oversized' = IF big THEN "yes" ELSE "no"
              /\ sized_index' = name
              /\ IF big
                 THEN /\ pc' = IF OversizedNeedsSplit(name, product)
                               THEN "gti_over_alias" ELSE "gti_refresh"
                      /\ UNCHANGED <<actions, idx, status, target_index, items>>
                 ELSE Return(target_index)
       ELSE Abort /\ UNCHANGED <<nstats, oversized, sized_index>>
    /\ UNCHANGED <<engine, cache, op, ctx, coll, product, check_size,
                   all_indexes, latest_index, split_info, pre, nrollover, nwrites>>
    /\ UNCHANGED others

\* handle_oversized_index_sync: update_index_alias_sync(end_date, target_index).
HandleOversizedAlias ==
    /\ pc = "gti_over_alias"
    /\ LET old == TheAlias(target_index) IN
       IF IndexExists(engine, coll, old)
       THEN /\ engine' = update_index_alias_sync(engine, coll,
                              OversizedEndDate(old, product), old)
            /\ nrollover' = nrollover + 1
            /\ pc' = "gti_over_create"
            /\ UNCHANGED <<actions, idx, status, target_index, items>>
       ELSE Abort /\ UNCHANGED <<engine, nrollover>>
    /\ UNCHANGED <<cache, op, ctx, coll, product, check_size,
                   all_indexes, latest_index, split_info, oversized,
                   sized_index, pre, nstats>>
    /\ nwrites' = nwrites + 1
    /\ UNCHANGED others

\* handle_oversized_index_sync: create_datetime_index_sync(end_date + 1 day).
HandleOversizedCreate ==
    /\ pc = "gti_over_create"
    /\ LET start == OversizedNextStart(TheAlias(target_index), product) IN
       /\ engine' = create_datetime_index_sync(engine, coll, start)
       /\ target_index' = {<<start>>}
    /\ pc' = "gti_refresh"
    /\ UNCHANGED <<cache, op, ctx, coll, items, idx, product, check_size,
                   all_indexes, latest_index, split_info, actions, oversized,
                   sized_index, pre, nstats, nrollover, status>>
    /\ nwrites' = nwrites + 1
    /\ UNCHANGED others

\* index_selector.refresh_cache() followed by the return of the target.
RefreshCache ==
    /\ pc = "gti_refresh"
    /\ cache' = CacheAfterLoad(engine)
    /\ Return(target_index)
    /\ UNCHANGED <<engine, op, ctx, coll, product, check_size,
                   all_indexes, latest_index, split_info, oversized,
                   sized_index, pre, nstats, nrollover, nwrites>>
    /\ UNCHANGED others

\* _ensure_indexes_exist: get_collection_indexes(collection_id).
EnsureIndexesExist ==
    /\ pc = "ensure"
    /\ cache' = CacheAfterGet(cache, engine)
    /\ pc' = IF get_aliases(cache, engine)[coll] = {} THEN "ensure_create" ELSE "split_all"
    /\ UNCHANGED engine
    /\ UNCHANGED locals
    /\ UNCHANGED others

\* _ensure_indexes_exist: create_datetime_index_sync for the first item,
\* whose datetime goes to extract_date as it is.
EnsureCreate ==
    /\ pc = "ensure_create"
    /\ IF ExtractDateRaises(items[1])
       THEN Abort /\ UNCHANGED <<engine, nwrites>>
       ELSE /\ engine' = create_datetime_index_sync(engine, coll, extract_date(items[1]))
            /\ nwrites' = nwrites + 1
            /\ pc' = "ensure_refresh"
            /\ UNCHANGED <<actions, idx, target_index, items, status>>
    /\ UNCHANGED <<cache, op, ctx, coll, product, check_size, all_indexes,
                   latest_index, split_info, oversized, sized_index, pre,
                   nstats, nrollover>>
    /\ UNCHANGED others

\* _ensure_indexes_exist: index_selector.refresh_cache().
EnsureRefresh ==
    /\ pc = "ensure_refresh"
    /\ cache' = CacheAfterLoad(engine)
    /\ pc' = "split_all"
    /\ UNCHANGED engine
    /\ UNCHANGED locals
    /\ UNCHANGED others

\* _handle_index_splitting, lines 177-184: latest_index, then the first
\* item is resolved without a size check.
HandleIndexSplitting ==
    /\ pc = "split_all"
    /\ cache' = CacheAfterGet(cache, engine)
    /\ LET all == get_aliases(cache, engine)[coll] IN
       IF all # {}
       THEN /\ latest_index' = LastIndex(all)
            /\ ctx' = "first"
            /\ product' = items[1]
            /\ check_size' = CheckSizeBulk
            /\ pc' = "gti_select"
            /\ UNCHANGED <<actions, idx, status, target_index, items>>
       ELSE Abort /\ UNCHANGED <<latest_index, ctx, product, check_size>>
    /\ UNCHANGED <<engine, op, coll, all_indexes, split_info, oversized,
                   sized_index, pre, nstats, nrollover, nwrites>>
    /\ UNCHANGED others

\* _handle_index_splitting, lines 189-194, with the test of
\* _create_new_index_for_split.
SplitStats ==
    /\ pc = "split_stats"
    /\ IF AliasExists(engine, coll, latest_index)
       THEN \E big \in BOOLEAN :
              /\ nstats' = nstats + 1
              /\ oversized' = IF big THEN "yes" ELSE "no"
              /\ sized_index' = latest_index
              /\ pc' = IF big /\ SplitNeeded(latest_index, items[1])
                       THEN "split_alias" ELSE "loop"
              /\ UNCHANGED <<actions, idx, status, target_index, items>>
       ELSE Abort /\ UNCHANGED <<nstats, oversized, sized_index>>
    /\ UNCHANGED <<engine, cache, op, ctx, coll, product, check_size,
                   all_indexes, latest_index, split_info, pre, nrollover, nwrites>>
    /\ UNCHANGED others

\* _create_new_index_for_split: update_index_alias_sync(current_index_end_date).
SplitAlias ==
    /\ pc = "split_alias"
    /\ IF IndexExists(engine, coll, latest_index)
       THEN /\ engine' = update_index_alias_sync(engine, coll,
                              SplitDate(latest_index, items[1]), latest_index)
            /\ nrollover' = nrollover + 1
            /\ pc' = "split_create"
            /\ UNCHANGED <<actions, idx, status, target_index, items>>
       ELSE Abort /\ UNCHANGED <<engine, nrollover>>
    /\ UNCHANGED <<cache, op, ctx, coll, product, check_size,
                   all_indexes, latest_index, split_info, oversized,
                   sized_index, pre, nstats>>
    /\ nwrites' = nwrites + 1
    /\ UNCHANGED others

\* _create_new_index_for_split: create_datetime_index_sync(next_day_start).
SplitCreate ==
    /\ pc = "split_create"
    /\ LET start == SplitNextStart(latest_index, items[1]) IN
       /\ engine' = create_datetime_index_sync(engine, coll, start)
       /\ split_info' = [split |-> TRUE,
                         split_date |-> SplitDate(latest_index, items[1]),
                         new_index |-> <<start>>]
    /\ pc' = "loop"
    /\ UNCHANGED <<cache, op, ctx, coll, items, idx, product, check_size,
                   target_index, all_indexes, latest_index, actions, oversized,
                   sized_index, pre, nstats, nrollover, status>>
    /\ nwrites' = nwrites + 1
    /\ UNCHANGED others

\* _create_bulk_actions: one turn of the loop up to the resolution of the
\* item; after a split the item's datetime goes to extract_date as it is.
CreateBulkActions ==
    /\ pc = "loop"
    /\ IF split_info.split /\ ExtractDateRaises(items[idx])
       THEN Abort /\ UNCHANGED <<ctx, product, check_size>>
       ELSE IF AfterSplit(split_info, items[idx])
       THEN /\ actions' = Append(actions, {split_info.new_index})
            /\ target_index' = {split_info.new_index}
            /\ idx' = idx + 1
            /\ NextItem
            /\ UNCHANGED <<ctx, product, check_size>>
       ELSE /\ ctx' = "loop"
            /\ product' = items[idx]
            /\ check_size' = CheckSizeBulk
            /\ pc' = "gti_select"
            /\ UNCHANGED <<actions, target_index, idx, status, items>>
    /\ UNCHANGED <<engine, cache, op, coll, all_indexes, latest_index,
                   split_info, oversized, sized_index, pre, nstats, nrollover, nwrites>>
    /\ UNCHANGED others

Next ==
    \/ \E c \in Collections, dt \in Datetimes : StartSingle(c, dt)
    \/ \E c \in Collections, dt \in Datetimes : StartBulk(c, dt)
    \/ Expire
    \/ SelectIndexes
    \/ GetCollectionIndexes
    \/ HandleNewCollection
    \/ HandleEarlyDateCreate
    \/ HandleEarlyDateAlias
    \/ CheckSize
    \/ HandleOversizedAlias
    \/ HandleOversizedCreate
    \/ RefreshCache
    \/ EnsureIndexesExist
    \/ EnsureCreate
    \/ EnsureRefresh
    \/ HandleIndexSplitting
    \/ SplitStats
    \/ SplitAlias
    \/ SplitCreate
    \/ CreateBulkActions

Spec == Init /\ [][Next]_vars

(***************************************************************************)
(* Writes of items that may lack a datetime.  The writer is the one of     *)
(* Spec; an item handed to it, or reached by the loop over a batch, may    *)
(* carry an empty or null datetime.                                        *)
(***************************************************************************)

\* product["properties"]["datetime"]: an ISO datetime, or empty or null.
MaybeDatetimes == Datetimes \cup {NoDatetime}

\* The item the loop of _create_bulk_actions has reached carries no datetime.
RevealMissing ==
    /\ pc = "loop"
    /\ idx > 1
    /\ idx = Len(items)
    /\ items[idx] # NoDatetime
    /\ items' = [items EXCEPT ![idx] = NoDatetime]
    /\ UNCHANGED <<engine, cache, pc, op, ctx, coll, idx, product, check_size,
                   target_index, all_indexes, latest_index, split_info, actions,
                   oversized, sized_index, pre, nstats, nrollover, nwrites, status>>
    /\ UNCHANGED others

NextInvalid ==
    \/ \E c \in Collections, dt \in MaybeDatetimes : StartSingle(c, dt)
    \/ \E c \in Collections, dt \in MaybeDatetimes : StartBulk(c, dt)
    \/ RevealMissing
    \/ Expire
    \/ SelectIndexes
    \/ GetCollectionIndexes
    \/ HandleNewCollection
    \/ HandleEarlyDateCreate
    \/ HandleEarlyDateAlias
    \/ CheckSize
    \/ HandleOversizedAlias
    \/ HandleOversizedCreate
    \/ RefreshCache
    \/ EnsureIndexesExist
    \/ EnsureCreate
    \/ EnsureRefresh
    \/ HandleIndexSplitting
    \/ SplitStats
    \/ SplitAlias
    \/ SplitCreate
    \/ CreateBulkActions

SpecInvalid == Init /\ [][NextInvalid]_vars

(***************************************************************************)
(* Single-item writes looked at from outside: the writer is the one of     *)
(* Spec, and the alias cache is recorded as it is when a single-item write *)
(* starts, so that it can be compared with the cache the write leaves.     *)
(***************************************************************************)

\* get_target_index(collection_id, product), with the cache recorded.
StartObserved(c, dt) ==
    /\ pc = "idle"
    /\ pc' = "gti_select"
    /\ op' = "single" /\ ctx' = "single" /\ coll' = c
    /\ items' = <<dt>> /\ idx' = 1 /\ product' = dt
    /\ check_size' = CheckSizeSingle
    /\ target_index' = {} /\ all_indexes' = {} /\ latest_index' = NoAlias
    /\ split_info' = NoSplit /\ actions' = <<>>
    /\ oversized' = "unknown" /\ sized_index' = NoAlias
    /\ pre' = engine /\ nstats' = 0 /\ nrollover' = 0 /\ nwrites' = 0 /\ status' = "running"
    /\ obs_cache' = cache
    /\ UNCHANGED topo
    /\ UNCHANGED <<retryVars, raceVars, cmVars, cmThreadVars, sel, bulk, lifecycle, names,
                   lateVars>>

\* prepare_bulk_actions(collection_id, items): batch writes build the
\* topologies and the stale snapshots the single-item writes meet; the
\* record of the last single-item write is dropped.
StartUnobserved(c, first_item) ==
    /\ pc = "idle"
    /\ pc' = "ensure"
    /\ op' = "bulk" /\ ctx' = "none" /\ coll' = c
    /\ items' = <<first_item>> /\ idx' = 1 /\ product' = first_item
    /\ check_size' = CheckSizeBulk
    /\ target_index' = {} /\ all_indexes' = {} /\ latest_index' = NoAlias
    /\ split_info' = NoSplit /\ actions' = <<>>
    /\ oversized' = "unknown" /\ sized_index' = NoAlias
    /\ pre' = engine /\ nstats' = 0 /\ nrollover' = 0 /\ nwrites' = 0 /\ status' = "running"
    /\ obs_cache' = NoCache
    /\ UNCHANGED topo
    /\ UNCHANGED <<retryVars, raceVars, cmVars, cmThreadVars, sel, bulk, lifecycle, names,
                   lateVars>>

NextFrame ==
    \/ \E c \in Collections, dt \in Datetimes : StartObserved(c, dt)
    \/ \E c \in Collections, dt \in Datetimes : StartUnobserved(c, dt)
    \/ Expire
    \/ SelectIndexes
    \/ GetCollectionIndexes
    \/ HandleNewCollection
    \/ HandleEarlyDateCreate
    \/ HandleEarlyDateAlias
    \/ CheckSize
    \/ HandleOversizedAlias
    \/ HandleOversizedCreate
    \/ RefreshCache
    \/ EnsureIndexesExist
    \/ EnsureCreate
    \/ EnsureRefresh
    \/ HandleIndexSplitting
    \/ SplitStats
    \/ SplitAlias
    \/ SplitCreate
    \/ CreateBulkActions

SpecFrame == Init /\ [][NextFrame]_vars

(***************************************************************************)
(* Abandoned and retried writes.  A single-item write can be abandoned at  *)
(* any point after it started (the request is cancelled or its process     *)
(* dies between two engine calls); the same write is then issued again.    *)
(***************************************************************************)

\* The write stops where it is: nothing is undone, the cache is kept.
Abandon ==
    /\ pc # "idle"
    /\ op \in {"single", "retry"}
    /\ pc' = "idle"
    /\ status' = "abandoned"
    /\ UNCHANGED <<engine, cache, op, ctx, coll, items, idx, product, check_size,
                   target_index, all_indexes, latest_index, split_info, actions,
                   oversized, sized_index, pre, nstats, nrollover, nwrites>>
    /\ UNCHANGED others

\* get_target_index(collection_id, product) called again for the abandoned
\* write; pre keeps the topology of the first attempt.
Retry ==
    /\ pc = "idle"
    /\ status = "abandoned"
    /\ pc' = "gti_select"
    /\ op' = "retry" /\ ctx' = "single"
    /\ idx' = 1 /\ product' = items[1]
    /\ check_size' = CheckSizeSingle
    /\ target_index' = {} /\ all_indexes' = {} /\ latest_index' = NoAlias
    /\ split_info' = NoSplit /\ actions' = <<>>
    /\ oversized' = "unknown" /\ sized_index' = NoAlias
    /\ nstats' = 0 /\ nrollover' = 0 /\ nwrites' = 0 /\ status' = "running"
    /\ retry_pre' = engine
    /\ UNCHANGED <<engine, cache, coll, items, pre, raceVars, cmVars, cmThreadVars,
                   auxVars>>

\* The caller of an abandoned write retries it before it writes anything else.
StartNext(c, dt) ==
    /\ status # "abandoned"
    /\ StartSingle(c, dt)

NextRetry ==
    \/ \E c \in Collections, dt \in Datetimes : StartNext(c, dt)
    \/ Expire
    \/ SelectIndexes
    \/ GetCollectionIndexes
    \/ HandleNewCollection
    \/ HandleEarlyDateCreate
    \/ HandleEarlyDateAlias
    \/ CheckSize
    \/ HandleOversizedAlias
    \/ HandleOversizedCreate
    \/ RefreshCache
    \/ Abandon
    \/ Retry

SpecRetry == Init /\ [][NextRetry]_vars

(***************************************************************************)
(* Concurrent non-blocking rollovers.  Two writers to one collection have  *)
(* both found its open partition oversized and have both called            *)
(* handle_oversized_index with it; each engine call is a suspension point, *)
(* so the calls of the two writers interleave freely.                      *)
(***************************************************************************)

\* The topologies the race starts from: one open partition starting at s,
\* alone or after a closed partition that ends the day before.
RaceTopologies ==
    {{[c |-> c, i |-> <<s>>, a |-> <<s>>]} : c \in Collections, s \in Dates}
    \cup {{[c |-> c, i |-> <<s - 1>>, a |-> <<s - 1, s - 1>>],
           [c |-> c, i |-> <<s>>, a |-> <<s>>]} : c \in Collections, s \in Dates \ {1}}

InitRace ==
    /\ engine \in RaceTopologies
    /\ pre = engine
    /\ cache = NoCache
    /\ pc = "idle" /\ op = "none" /\ ctx = "none"
    /\ coll \in Collections
    /\ Cardinality({r \in engine : r.c = coll}) = Cardinality(engine)
    /\ items = <<>> /\ idx = 0
    /\ product = CHOOSE dt \in Datetimes : TRUE
    /\ check_size = FALSE
    /\ target_index = {} /\ all_indexes = {} /\ latest_index = NoAlias
    /\ split_info = NoSplit /\ actions = <<>>
    /\ oversized = "unknown" /\ sized_index = NoAlias
    /\ nstats = 0 /\ nrollover = 0 /\ nwrites = 0 /\ status = "none"
    /\ retry_pre = {}
    /\ InitCacheManager
    /\ InitAux
    /\ wpc = [w \in Writers |-> "called"]
    /\ \E open \in {r \in engine : IsOpen(r.a)} :
          /\ wtarget = [w \in Writers |-> open.a]
          /\ wproduct \in [Writers -> {dt \in Datetimes :
                                          extract_date(dt) >= extract_first_date_from_index(open.a)}]

\* What the concurrent rollovers leave alone: the cache and the blocking writer.
writerVars == <<cache, pc, locals, retryVars, cmVars, cmThreadVars, auxVars>>

\* handle_oversized_index: end_date == latest_index_start, the target is
\* returned as it was passed.
RaceSameDay(w) ==
    /\ wpc[w] = "called"
    /\ ~OversizedNeedsSplit(wtarget[w], wproduct[w])
    /\ wpc' = [wpc EXCEPT ![w] = "done"]
    /\ UNCHANGED <<engine, wtarget, wproduct>>
    /\ UNCHANGED writerVars

\* handle_oversized_index: await update_index_alias(end_date, target_index).
RaceUpdateAlias(w) ==
    /\ wpc[w] = "called"
    /\ OversizedNeedsSplit(wtarget[w], wproduct[w])
    /\ engine' = update_index_alias(engine, coll,
                      OversizedEndDate(wtarget[w], wproduct[w]), wtarget[w])
    /\ wpc' = [wpc EXCEPT ![w] = "create"]
    /\ UNCHANGED <<wtarget, wproduct>>
    /\ UNCHANGED writerVars

\* handle_oversized_index: await create_datetime_index(end_date + 1 day).
RaceCreate(w) ==
    /\ wpc[w] = "create"
    /\ LET start == OversizedNextStart(wtarget[w], wproduct[w]) IN
       /\ engine' = create_datetime_index(engine, coll, start)
       /\ wtarget' = [wtarget EXCEPT ![w] = <<start>>]
    /\ wpc' = [wpc EXCEPT ![w] = "done"]
    /\ UNCHANGED wproduct
    /\ UNCHANGED writerVars

NextRace ==
    \/ \E w \in Writers : RaceSameDay(w)
    \/ \E w \in Writers : RaceUpdateAlias(w)
    \/ \E w \in Writers : RaceCreate(w)

SpecRace == InitRace /\ [][NextRace]_vars

(***************************************************************************)
(* The cache manager on its own: one caller that stores, clears and reads  *)
(* snapshots while the clock advances.                                     *)
(***************************************************************************)

\* Bound on the advances of the clock.
MaxTicks == 3

\* The clock advances by a second or by one TTL, so that the age of a
\* snapshot passes through TTL - 1, TTL and TTL + 1.
ClockSteps == {1, cache_ttl_seconds - 1, cache_ttl_seconds}

\* The snapshots a caller stores: the empty mapping and loads of topologies.
Snapshots ==
    {EmptyMapping, EmptyData}
    \cup {load_aliases({[c |-> c, i |-> <<s>>, a |-> <<s>>]}) : c \in Collections, s \in {1, 2}}

\* Mutant: a snapshot is expired as soon as its age reaches the TTL.
is_expired_AtTTL(timestamp, t) == t - timestamp >= cache_ttl_seconds

\* IndexCacheManager.is_expired: time.time() - self._timestamp > self._ttl
is_expired(timestamp, t) == t - timestamp > cache_ttl_seconds

\* Mutant: an empty mapping is taken for a missing snapshot.
get_cache_Falsy(cached, timestamp, t) ==
    IF is_expired(timestamp, t) \/ cached.data = EmptyMapping THEN None ELSE cached

\* IndexCacheManager.get_cache
get_cache(cached, timestamp, t) ==
    IF is_expired(timestamp, t) THEN None ELSE cached

\* What the rest of the system does not see of the cache manager's callers.
systemVars == <<engine, cache, pc, locals, retryVars, raceVars, auxVars>>

\* IndexCacheManager.set_cache(data)
SetCache(data) ==
    /\ cm_cache' = Some(data)
    /\ cm_timestamp' = now
    /\ cm_hist' = [kind |-> "set", data |-> data, at |-> now]
    /\ cm_last' = "set"
    /\ UNCHANGED <<now, cm_ticks, cm_got, cmThreadVars>>
    /\ UNCHANGED systemVars

\* IndexCacheManager.clear_cache()
ClearCache ==
    /\ cm_cache' = None
    /\ cm_timestamp' = 0
    /\ cm_hist' = [kind |-> "clear", data |-> EmptyMapping, at |-> now]
    /\ cm_last' = "clear"
    /\ UNCHANGED <<now, cm_ticks, cm_got, cmThreadVars>>
    /\ UNCHANGED systemVars

\* IndexCacheManager.get_cache()
GetCache ==
    /\ cm_got' = [after |-> cm_last, at |-> now,
                  result |-> get_cache(cm_cache, cm_timestamp, now)]
    /\ cm_last' = "get"
    /\ UNCHANGED <<cm_cache, cm_timestamp, now, cm_ticks, cm_hist, cmThreadVars>>
    /\ UNCHANGED systemVars

\* Time passes.
Tick(d) ==
    /\ cm_ticks < MaxTicks
    /\ cm_ticks' = cm_ticks + 1
    /\ now' = now + d
    /\ cm_last' = "tick"
    /\ UNCHANGED <<cm_cache, cm_timestamp, cm_got, cm_hist, cmThreadVars>>
    /\ UNCHANGED systemVars

NextCache ==
    \/ \E data \in Snapshots : SetCache(data)
    \/ ClearCache
    \/ GetCache
    \/ \E d \in ClockSteps : Tick(d)

SpecCache == Init /\ [][NextCache]_vars

(***************************************************************************)
(* The cache manager shared by threads without a lock: two threads that    *)
(* reload or clear the cache and one that reads it.  set_cache and         *)
(* clear_cache assign their two fields one after the other, get_cache      *)
(* tests is_expired and then reads _cache, and a thread can be preempted   *)
(* between any two of these steps.                                         *)
(***************************************************************************)

\* Bound on the snapshots that are loaded.
MaxLoads == 2

\* The mapping built by the n-th load_aliases: every load builds a new one.
LoadedSnapshot(n) == [c \in Collections |-> {<<n>>}]

\* load_aliases ... set_cache(result), first assignment: self._cache = data
ThreadSetData(t) ==
    /\ cpc[t] = "idle"
    /\ cm_nloads < MaxLoads
    /\ cm_nloads' = cm_nloads + 1
    /\ cload' = [cload EXCEPT ![t] = cm_nloads + 1]
    /\ cm_cache' = Some(LoadedSnapshot(cm_nloads + 1))
    /\ cpc' = [cpc EXCEPT ![t] = "set_stamp"]
    /\ UNCHANGED <<cm_timestamp, now, cm_ticks, cm_last, cm_got, cm_hist, cm_stamps>>
    /\ UNCHANGED systemVars

\* set_cache, second assignment: self._timestamp = time.time()
ThreadSetStamp(t) ==
    /\ cpc[t] = "set_stamp"
    /\ cm_timestamp' = now
    /\ cm_stamps' = cm_stamps \cup {[load |-> cload[t], at |-> now]}
    /\ cpc' = [cpc EXCEPT ![t] = "idle"]
    /\ UNCHANGED <<cm_cache, now, cm_ticks, cm_last, cm_got, cm_hist, cload, cm_nloads>>
    /\ UNCHANGED systemVars

\* clear_cache, first assignment: self._cache = None
ThreadClearData(t) ==
    /\ cpc[t] = "idle"
    /\ cm_cache' = None
    /\ cpc' = [cpc EXCEPT ![t] = "clear_stamp"]
    /\ UNCHANGED <<cm_timestamp, now, cm_ticks, cm_last, cm_got, cm_hist,
                   cload, cm_nloads, cm_stamps>>
    /\ UNCHANGED systemVars

\* clear_cache, second assignment: self._timestamp = 0
ThreadClearStamp(t) ==
    /\ cpc[t] = "clear_stamp"
    /\ cm_timestamp' = 0
    /\ cpc' = [cpc EXCEPT ![t] = "idle"]
    /\ UNCHANGED <<cm_cache, now, cm_ticks, cm_last, cm_got, cm_hist,
                   cload, cm_nloads, cm_stamps>>
    /\ UNCHANGED systemVars

\* get_cache: "if self.is_expired: return None"
ThreadGetCheck ==
    /\ cpc["r"] = "idle"
    /\ cm_got' = [after |-> "check", at |-> now, result |-> None]
    /\ cpc' = [cpc EXCEPT !["r"] = IF is_expired(cm_timestamp, now)
                                   THEN "idle" ELSE "get_return"]
    /\ UNCHANGED <<cm_cache, cm_timestamp, now, cm_ticks, cm_last, cm_hist,
                   cload, cm_nloads, cm_stamps>>
    /\ UNCHANGED systemVars

\* get_cache: "return self._cache"
ThreadGetReturn ==
    /\ cpc["r"] = "get_return"
    /\ cm_got' = [cm_got EXCEPT !.after = "return", !.result = cm_cache]
    /\ cpc' = [cpc EXCEPT !["r"] = "idle"]
    /\ UNCHANGED <<cm_cache, cm_timestamp, now, cm_ticks, cm_last, cm_hist,
                   cload, cm_nloads, cm_stamps>>
    /\ UNCHANGED systemVars

NextCacheThreads ==
    \/ \E t \in CacheWriters : ThreadSetData(t)
    \/ \E t \in CacheWriters : ThreadSetStamp(t)
    \/ \E t \in CacheWriters : ThreadClearData(t)
    \/ \E t \in CacheWriters : ThreadClearStamp(t)
    \/ ThreadGetCheck
    \/ ThreadGetReturn
    \/ \E d \in ClockSteps : Tick(d)

SpecCacheThreads == Init /\ [][NextCacheThreads]_vars


(***************************************************************************)
(* The read side.  One caller uses the datetime-filtered selector (a       *)
(* singleton: one cache manager and one alias loader) and the unfiltered   *)
(* selector while other processes change the engine and the clock          *)
(* advances.  A call of a selector is one step: the blocking selector runs *)
(* to its end without a suspension point; the caller takes the result in   *)
(* the step that follows.  The result string is the set of the             *)
(* (collection, alias) pairs it joins, or the catalog-wide wildcard.       *)
(***************************************************************************)

\* The collections a search names: the known ones and one that no snapshot holds.
QueryCollections == Collections \cup {"cx"}

\* The lists of collection ids of a search, without repetitions.
IdLists ==
    {<<>>} \cup {<<c>> : c \in QueryCollections}
    \cup {l \in {<<c, d>> : c \in QueryCollections, d \in QueryCollections} :
               l[1] # l[2]}

CollectionIds == {NoIds} \cup {Ids(l) : l \in IdLists}

\* The bounds a range gives: none, or the start of a day.
RangeBounds == {NoDatetime} \cup {[day |-> d, time |-> "00:00"] : d \in Dates}
Ranges == [gte : RangeBounds, lte : RangeBounds]

\* The topologies other processes leave in the engine: no partition, one open
\* partition, or a chain of closed partitions that ends with the open one.
SelTopologies ==
    {{}}
    \cup {{[c |-> c, i |-> <<1>>, a |-> <<1>>]} : c \in Collections}
    \cup {{[c |-> c, i |-> <<1>>, a |-> <<1, 1>>],
           [c |-> c, i |-> <<2>>, a |-> <<2>>]} : c \in Collections}
    \cup {{[c |-> c, i |-> <<1>>, a |-> <<1, 1>>],
           [c |-> c, i |-> <<2>>, a |-> <<2, 2>>],
           [c |-> c, i |-> <<3>>, a |-> <<3>>]} : c \in Collections}

\* mappings.ITEM_INDICES, and a string that joins the given names.
ITEM_INDICES == [kind |-> "wildcard", names |-> {}]
Joined(selected) == [kind |-> "names", names |-> selected]

\* aliases.get(index_alias_by_collection_id(collection_id), [])
AliasesOf(aliases, collection_id) ==
    IF collection_id \in DOMAIN aliases THEN aliases[collection_id] ELSE {}

\* Mutant: "if cached:" - a snapshot without partitions is loaded again.
loader_get_aliases_Falsy(cached, timestamp, t, eng) ==
    LET got == get_cache(cached, timestamp, t) IN
    IF got.some /\ \E c \in DOMAIN got.data : got.data[c] # {}
    THEN [data |-> got.data, cache |-> cached, timestamp |-> timestamp, loads |-> 0]
    ELSE [data |-> load_aliases(eng), cache |-> Some(load_aliases(eng)),
          timestamp |-> t, loads |-> 1]

\* SyncIndexAliasLoader.get_aliases: the cached snapshot unless get_cache
\* returns None, else load_aliases (one get_alias call, then set_cache).
loader_get_aliases(cached, timestamp, t, eng) ==
    LET got == get_cache(cached, timestamp, t) IN
    IF got.some
    THEN [data |-> got.data, cache |-> cached, timestamp |-> timestamp, loads |-> 0]
    ELSE [data |-> load_aliases(eng), cache |-> Some(load_aliases(eng)),
          timestamp |-> t, loads |-> 1]

\* select_indexes, "for collection_id in collection_ids": st holds the names
\* selected so far, the cache manager's fields and the calls counted so far.
RECURSIVE select_loop(_, _, _, _, _)
select_loop(list, rng, st, t, eng) ==
    IF list = <<>>
    THEN st
    ELSE LET got == loader_get_aliases(st.cache, st.timestamp, t, eng)
             filtered_indexes ==
                 filter_indexes_by_datetime(AliasesOf(got.data, Head(list)),
                                            rng.gte, rng.lte)
         IN select_loop(Tail(list), rng,
                        [names |-> st.names \cup {<<Head(list), p>> : p \in filtered_indexes},
                         cache |-> got.cache, timestamp |-> got.timestamp,
                         loads |-> st.loads + got.loads, reads |-> st.reads + 1],
                        t, eng)

\* Mutant: the aliases are fetched before the collection ids are looked at.
select_indexes_EagerRead(collection_ids, rng, cached, timestamp, t, eng) ==
    LET got == loader_get_aliases(cached, timestamp, t, eng)
        st == select_loop(collection_ids.list, rng,
                          [names |-> {}, cache |-> got.cache, timestamp |-> got.timestamp,
                           loads |-> got.loads, reads |-> 1], t, eng)
    IN [result |-> IF collection_ids.given /\ collection_ids.list # <<>>
                   THEN Joined(st.names) ELSE ITEM_INDICES,
        cache |-> st.cache, timestamp |-> st.timestamp,
        loads |-> st.loads, reads |-> st.reads]

\* Mutant: nothing selected falls back to the wildcard.
select_indexes_EmptyIsWildcard(collection_ids, rng, cached, timestamp, t, eng) ==
    LET st == select_loop(collection_ids.list, rng,
                          [names |-> {}, cache |-> cached, timestamp |-> timestamp,
                           loads |-> 0, reads |-> 0], t, eng)
    IN [result |-> IF st.names # {} THEN Joined(st.names) ELSE ITEM_INDICES,
        cache |-> st.cache, timestamp |-> st.timestamp,
        loads |-> st.loads, reads |-> st.reads]

\* Mutant: the two bounds of the range are passed in the wrong order.
select_indexes_SwapsBounds(collection_ids, rng, cached, timestamp, t, eng) ==
    IF collection_ids.given /\ collection_ids.list # <<>>
    THEN LET st == select_loop(collection_ids.list, [gte |-> rng.lte, lte |-> rng.gte],
                               [names |-> {}, cache |-> cached, timestamp |-> timestamp,
                                loads |-> 0, reads |-> 0], t, eng)
         IN [result |-> Joined(st.names), cache |-> st.cache, timestamp |-> st.timestamp,
             loads |-> st.loads, reads |-> st.reads]
    ELSE [result |-> ITEM_INDICES, cache |-> cached, timestamp |-> timestamp,
          loads |-> 0, reads |-> 0]

\* SyncDatetimeBasedIndexSelector.select_indexes(collection_ids, datetime_search)
select_indexes(collection_ids, rng, cached, timestamp, t, eng) ==
    IF collection_ids.given /\ collection_ids.list # <<>>
    THEN LET st == select_loop(collection_ids.list, rng,
                               [names |-> {}, cache |-> cached, timestamp |-> timestamp,
                                loads |-> 0, reads |-> 0], t, eng)
         IN [result |-> Joined(st.names), cache |-> st.cache, timestamp |-> st.timestamp,
             loads |-> st.loads, reads |-> st.reads]
    ELSE [result |-> ITEM_INDICES, cache |-> cached, timestamp |-> timestamp,
          loads |-> 0, reads |-> 0]

\* What a call of a selector leaves alone.
unreadVars == <<cache, pc, locals, retryVars, raceVars, cmThreadVars,
                now, cm_ticks, cm_last, cm_got, cm_hist,
                bulk, lifecycle, names, obs_cache, lateVars>>

\* index_selector.select_indexes(collection_ids, datetime_search)
SelectorSelect(collection_ids, rng) ==
    /\ sel = NoCall
    /\ LET r == select_indexes(collection_ids, rng, cm_cache, cm_timestamp, now, engine) IN
       /\ sel' = [op |-> "select", ids |-> collection_ids, rng |-> rng,
                  result |-> r.result, loads |-> r.loads, reads |-> r.reads,
                  before |-> [cache |-> cm_cache, timestamp |-> cm_timestamp]]
       /\ cm_cache' = r.cache
       /\ cm_timestamp' = r.timestamp
    /\ UNCHANGED engine
    /\ UNCHANGED unreadVars

\* index_selector.get_collection_indexes(collection_id)
SelectorGetCollectionIndexes(collection_id) ==
    /\ sel = NoCall
    /\ LET got == loader_get_aliases(cm_cache, cm_timestamp, now, engine) IN
       /\ sel' = [op |-> "get_collection_indexes", ids |-> Ids(<<collection_id>>),
                  rng |-> NoRange,
                  result |-> Joined({<<collection_id, p>> :
                                        p \in AliasesOf(got.data, collection_id)}),
                  loads |-> got.loads, reads |-> 1,
                  before |-> [cache |-> cm_cache, timestamp |-> cm_timestamp]]
       /\ cm_cache' = got.cache
       /\ cm_timestamp' = got.timestamp
    /\ UNCHANGED engine
    /\ UNCHANGED unreadVars

\* index_selector.refresh_cache(): refresh_aliases -> load_aliases
SelectorRefreshCache ==
    /\ sel = NoCall
    /\ sel' = [op |-> "refresh_cache", ids |-> NoIds, rng |-> NoRange,
               result |-> [kind |-> "none", names |-> {}],
               loads |-> 1, reads |-> 0,
               before |-> [cache |-> cm_cache, timestamp |-> cm_timestamp]]
    /\ cm_cache' = Some(load_aliases(engine))
    /\ cm_timestamp' = now
    /\ UNCHANGED engine
    /\ UNCHANGED unreadVars

\* Another process writes: the engine holds another topology.
EngineChanges(eng) ==
    /\ sel = NoCall
    /\ eng # engine
    /\ engine' = eng
    /\ UNCHANGED <<cache, pc, locals, retryVars, raceVars, cmVars, cmThreadVars, auxVars>>

\* database.indices(collection_ids): the collection aliases of the given
\* collections, each of which the engine resolves to every partition of its
\* collection, or the wildcard when no collection is given.
indices(collection_ids) ==
    IF collection_ids.given /\ collection_ids.list # <<>>
    THEN [kind |-> "collections",
          names |-> {collection_ids.list[k] : k \in 1..Len(collection_ids.list)}]
    ELSE ITEM_INDICES

\* Mutant: the unfiltered selector filters like the datetime-based one.
unfiltered_select_indexes_Filters(collection_ids, rng, cached, timestamp, t, eng) ==
    select_indexes(collection_ids, rng, cached, timestamp, t, eng)

\* UnfilteredIndexSelector.select_indexes(collection_ids, datetime_search)
unfiltered_select_indexes(collection_ids, rng, cached, timestamp, t, eng) ==
    [result |-> indices(collection_ids), cache |-> cached, timestamp |-> timestamp,
     loads |-> 0, reads |-> 0]

\* UnfilteredIndexSelector.select_indexes called by the reader
UnfilteredSelect(collection_ids, rng) ==
    /\ sel = NoCall
    /\ LET r == unfiltered_select_indexes(collection_ids, rng,
                                          cm_cache, cm_timestamp, now, engine) IN
       /\ sel' = [op |-> "unfiltered_select", ids |-> collection_ids, rng |-> rng,
                  result |-> r.result, loads |-> r.loads, reads |-> r.reads,
                  before |-> [cache |-> cm_cache, timestamp |-> cm_timestamp]]
       /\ cm_cache' = r.cache
       /\ cm_timestamp' = r.timestamp
    /\ UNCHANGED engine
    /\ UNCHANGED unreadVars

\* UnfilteredIndexSelector.refresh_cache(): pass
UnfilteredRefreshCache ==
    /\ sel = NoCall
    /\ sel' = [op |-> "unfiltered_refresh", ids |-> NoIds, rng |-> NoRange,
               result |-> [kind |-> "none", names |-> {}],
               loads |-> 0, reads |-> 0,
               before |-> [cache |-> cm_cache, timestamp |-> cm_timestamp]]
    /\ UNCHANGED <<engine, cm_cache, cm_timestamp>>
    /\ UNCHANGED unreadVars

\* The caller has the result of its call.
SelectorReturn ==
    /\ sel # NoCall
    /\ sel' = NoCall
    /\ UNCHANGED <<engine, cache, pc, locals, retryVars, raceVars, cmVars, cmThreadVars,
                   bulk, lifecycle, names, obs_cache, lateVars>>

\* The clock of the read side advances by a second or by one TTL.
SelClockSteps == {1, cache_ttl_seconds}

\* Time passes between two calls.
SelTick(d) ==
    /\ sel = NoCall
    /\ Tick(d)

NextSelect ==
    \/ \E ids \in CollectionIds, rng \in Ranges : SelectorSelect(ids, rng)
    \/ \E c \in QueryCollections : SelectorGetCollectionIndexes(c)
    \/ SelectorRefreshCache
    \/ \E ids \in CollectionIds, rng \in Ranges : UnfilteredSelect(ids, rng)
    \/ UnfilteredRefreshCache
    \/ SelectorReturn
    \/ \E eng \in SelTopologies : EngineChanges(eng)
    \/ \E d \in SelClockSteps : SelTick(d)

SpecSelect == Init /\ [][NextSelect]_vars

(***************************************************************************)
(* The bulk actions of the simple strategy.  An item is its id and its own *)
(* "collection" field, which need not name the collection the batch is     *)
(* written to; a string built by concatenation is the sequence of its      *)
(* parts.                                                                  *)
(***************************************************************************)

ItemIds == {"i1", "i2"}
BatchCollections == {"c1", "c2"}
StacItems == [id : ItemIds, collection : BatchCollections]

\* The batches of up to MaxBatch items.
Batches == UNION {[1..n -> StacItems] : n \in 0..MaxBatch}

\* mappings.ITEMS_INDEX_PREFIX
ITEMS_INDEX_PREFIX == "items_"

\* database.index_alias_by_collection_id
index_alias_by_collection_id(collection_id) == <<ITEMS_INDEX_PREFIX, collection_id>>

\* database.document.mk_item_id: f"{item_id}|{collection_id}"
mk_item_id(item_id, collection_id) == <<item_id, "|", collection_id>>

\* SyncSimpleIndexInserter.get_target_index
simple_get_target_index(collection_id) == index_alias_by_collection_id(collection_id)

\* SyncSimpleIndexInserter.prepare_bulk_actions: one action per item, in order.
simple_prepare_bulk_actions(collection_id, batch) ==
    [k \in 1..Len(batch) |->
        [index |-> simple_get_target_index(collection_id),
         id |-> mk_item_id(batch[k].id, batch[k].collection),
         source |-> batch[k]]]

\* What the simple strategy leaves alone.
unbulkedVars == <<engine, cache, pc, locals, retryVars, raceVars, cmVars, cmThreadVars,
                  sel, lifecycle, names, obs_cache, lateVars>>

\* prepare_bulk_actions(collection_id, items) of the simple strategy
SimplePrepareBulkActions(collection_id, batch) ==
    /\ bulk' = [called |-> TRUE, collection_id |-> collection_id, items |-> batch,
                actions |-> simple_prepare_bulk_actions(collection_id, batch)]
    /\ UNCHANGED unbulkedVars

NextBulk ==
    \E c \in BatchCollections, batch \in Batches : SimplePrepareBulkActions(c, batch)

SpecBulk == Init /\ [][NextBulk]_vars

(***************************************************************************)
(* The two variants of the lifecycle operations.  An operation is the      *)
(* sequence of the requests it sends to the engine and the name it         *)
(* returns; each variant is run from the same engine state, and a request  *)
(* that the engine rejects raises and ends the operation.                  *)
(***************************************************************************)

\* update_index_alias_sync: the body of the update_aliases request.
update_index_alias_sync_request(c, end_date, old_alias) ==
    [call |-> "indices.update_aliases", c |-> c, index |-> old_alias,
     remove |-> old_alias, add |-> Append(old_alias, end_date)]

\* update_index_alias: the body of the update_aliases request.
update_index_alias_request(c, end_date, old_alias) ==
    [call |-> "indices.update_aliases", c |-> c, index |-> old_alias,
     remove |-> old_alias, add |-> Append(old_alias, end_date)]

\* create_datetime_index_sync: the create request, status 400 ignored.
create_datetime_index_sync_request(c, start_date) ==
    [call |-> "indices.create", c |-> c, index |-> <<start_date>>,
     aliases |-> {<<start_date>>}, ignore |-> 400]

\* create_datetime_index: the create request, status 400 ignored.
create_datetime_index_request(c, start_date) ==
    [call |-> "indices.create", c |-> c, index |-> <<start_date>>,
     aliases |-> {<<start_date>>}, ignore |-> 400]

\* handle_new_collection_sync(collection_id, product_datetime)
handle_new_collection_sync(c, dt) ==
    [calls |-> <<create_datetime_index_sync_request(c, extract_date(dt))>>,
     ret |-> <<extract_date(dt)>>]

\* handle_new_collection(collection_id, product_datetime)
handle_new_collection(c, dt) ==
    [calls |-> <<create_datetime_index_request(c, extract_date(dt))>>,
     ret |-> <<extract_date(dt)>>]

\* handle_early_date_sync(collection_id, start_date, end_date)
handle_early_date_sync(c, start_date, end_date) ==
    [calls |-> <<create_datetime_index_sync_request(c, start_date),
                 update_index_alias_sync_request(c, EarlyEndDate(end_date), <<start_date>>)>>,
     ret |-> <<start_date, EarlyEndDate(end_date)>>]

\* handle_early_date(collection_id, start_date, end_date)
handle_early_date(c, start_date, end_date) ==
    [calls |-> <<create_datetime_index_request(c, start_date),
                 update_index_alias_request(c, end_date - 1, <<start_date>>)>>,
     ret |-> <<start_date, end_date - 1>>]

\* handle_oversized_index_sync(collection_id, target_index, product_datetime)
handle_oversized_index_sync(c, target, dt) ==
    IF OversizedNeedsSplit(target, dt)
    THEN [calls |-> <<update_index_alias_sync_request(c, OversizedEndDate(target, dt), target),
                      create_datetime_index_sync_request(c, OversizedNextStart(target, dt))>>,
          ret |-> <<OversizedNextStart(target, dt)>>]
    ELSE [calls |-> <<>>, ret |-> target]

\* Mutant: the non-blocking rollover creates the new index before it renames.
handle_oversized_index_CreatesFirst(c, target, dt) ==
    IF extract_date(dt) # extract_first_date_from_index(target)
    THEN [calls |-> <<create_datetime_index_request(c, extract_date(dt) + 1),
                      update_index_alias_request(c, extract_date(dt), target)>>,
          ret |-> <<extract_date(dt) + 1>>]
    ELSE [calls |-> <<>>, ret |-> target]

\* handle_oversized_index(collection_id, target_index, product_datetime)
handle_oversized_index(c, target, dt) ==
    IF extract_date(dt) # extract_first_date_from_index(target)
    THEN [calls |-> <<update_index_alias_request(c, extract_date(dt), target),
                      create_datetime_index_request(c, extract_date(dt) + 1)>>,
          ret |-> <<extract_date(dt) + 1>>]
    ELSE [calls |-> <<>>, ret |-> target]

\* The engine accepts a request unless it names an index that does not exist.
Accepts(eng, request) ==
    request.call = "indices.update_aliases" => IndexExists(eng, request.c, request.index)

\* The engine after a request it accepted.
Served(eng, request) ==
    IF request.call = "indices.create"
    THEN IF IndexExists(eng, request.c, request.index)
         THEN eng
         ELSE eng \cup {[c |-> request.c, i |-> request.index, a |-> a] : a \in request.aliases}
    ELSE (eng \ {[c |-> request.c, i |-> request.index, a |-> request.remove]})
             \cup {[c |-> request.c, i |-> request.index, a |-> request.add]}

\* The run of an operation: the requests that reach the engine, whether one
\* of them raised, the name returned and the engine that is left.
RECURSIVE RunRequests(_, _, _)
RunRequests(operation, k, run) ==
    IF k > Len(operation.calls)
    THEN [run EXCEPT !.ret = operation.ret]
    ELSE IF Accepts(run.engine, operation.calls[k])
    THEN RunRequests(operation, k + 1,
                     [run EXCEPT !.calls = Append(run.calls, operation.calls[k]),
                                 !.engine = Served(run.engine, operation.calls[k])])
    ELSE [run EXCEPT !.calls = Append(run.calls, operation.calls[k]), !.raised = TRUE]

Run(operation, eng) == RunRequests(operation, 1, [NoTrace EXCEPT !.engine = eng])

\* The engine states a lifecycle operation can find.
LifecycleTopologies == SelTopologies \cup RaceTopologies

\* The partition names handed to handle_oversized_index as target_index.
LifecycleTargets == {<<s>> : s \in Dates}

\* What the lifecycle operations taken on their own leave alone.
unmanagedVars == <<engine, cache, pc, locals, retryVars, raceVars, cmVars, cmThreadVars,
                   sel, bulk, names, obs_cache, lateVars>>

\* handle_new_collection_sync and handle_new_collection from engine state eng
RunNewCollection(c, dt, eng) ==
    /\ lifecycle' = [op |-> [name |-> "new_collection", c |-> c, dt |-> dt, engine |-> eng],
                     blocking |-> Run(handle_new_collection_sync(c, dt), eng),
                     nonblocking |-> Run(handle_new_collection(c, dt), eng)]
    /\ UNCHANGED unmanagedVars

\* handle_early_date_sync and handle_early_date from engine state eng
RunEarlyDate(c, start_date, end_date, eng) ==
    /\ lifecycle' = [op |-> [name |-> "early_date", c |-> c, start_date |-> start_date,
                             end_date |-> end_date, engine |-> eng],
                     blocking |-> Run(handle_early_date_sync(c, start_date, end_date), eng),
                     nonblocking |-> Run(handle_early_date(c, start_date, end_date), eng)]
    /\ UNCHANGED unmanagedVars

\* handle_oversized_index_sync and handle_oversized_index from engine state eng
RunOversized(c, target, dt, eng) ==
    /\ lifecycle' = [op |-> [name |-> "oversized", c |-> c, target |-> target,
                             dt |-> dt, engine |-> eng],
                     blocking |-> Run(handle_oversized_index_sync(c, target, dt), eng),
                     nonblocking |-> Run(handle_oversized_index(c, target, dt), eng)]
    /\ UNCHANGED unmanagedVars

NextLifecycle ==
    \/ \E c \in Collections, dt \in Datetimes, eng \in LifecycleTopologies :
          RunNewCollection(c, dt, eng)
    \/ \E c \in Collections, s \in Dates, e \in Dates, eng \in LifecycleTopologies :
          RunEarlyDate(c, s, e, eng)
    \/ \E c \in Collections, t \in LifecycleTargets, dt \in Datetimes,
          eng \in LifecycleTopologies : RunOversized(c, t, dt, eng)

SpecLifecycle == Init /\ [][NextLifecycle]_vars

(***************************************************************************)
(* The names the adapters give to indices and aliases.  A name is the      *)
(* sequence of its parts: the prefix, the characters of the collection id, *)
(* the separators and the dates.  The engine is the set of its indices,    *)
(* each with the set of the aliases it carries.                            *)
(***************************************************************************)

\* Bound on the adapter calls of one behaviour.
MaxNameCalls == 4

\* Collection ids: one with an upper-case letter and a character that index
\* names do not admit, one that begins like the prefix of the item indices.
NameCollections == {<<"C", "/">>, <<ITEMS_INDEX_PREFIX, "c">>}

\* collection_id.translate(_ES_INDEX_NAME_UNSUPPORTED_CHARS_TABLE)
Translated(collection_id) ==
    [k \in 1..Len(collection_id) |->
        IF collection_id[k] = "/" THEN "_" ELSE collection_id[k]]

\* str.lower()
Lower(name) == [k \in 1..Len(name) |-> IF name[k] = "C" THEN "c" ELSE name[k]]

\* str.removeprefix(prefix)
removeprefix(name, prefix) ==
    IF Len(name) > 0 /\ name[1] = prefix THEN Tail(name) ELSE name

\* SearchEngineAdapter.create_index_name
create_index_name(collection_id, start_date) ==
    <<ITEMS_INDEX_PREFIX>> \o Lower(Translated(collection_id)) \o <<"_", start_date>>

\* create_datetime_index_sync: index_name, alias_name and collection_alias.
CreatedIndex(collection_id, start_date) == create_index_name(collection_id, start_date)
CreatedAlias(collection_id, start_date) ==
    removeprefix(create_index_name(collection_id, start_date), ITEMS_INDEX_PREFIX)

\* Mutant: the index of the request is the alias name, without the prefix.
UpdatedIndex_NoPrefix(old_alias) == old_alias

\* update_index_alias_sync: index = ITEMS_INDEX_PREFIX + old_alias
UpdatedIndex(old_alias) == <<ITEMS_INDEX_PREFIX>> \o old_alias

\* update_index_alias_sync: new_alias = f"{old_alias}-{end_date}"
NewAlias(old_alias, end_date) == old_alias \o <<"-", end_date>>

\* update_index_alias_sync: the requests it sends, each a list of actions.
UpdateRequests(end_date, old_alias) ==
    << <<[action |-> "remove", index |-> UpdatedIndex(old_alias), alias |-> old_alias],
         [action |-> "add", index |-> UpdatedIndex(old_alias),
          alias |-> NewAlias(old_alias, end_date)]>> >>

\* The engine knows every index that a list of actions names.
NamesKnownIndices(eng, acts) ==
    \A k \in 1..Len(acts) : \E x \in eng : x.index = acts[k].index

\* The engine after it applied a list of alias actions in one step.
RECURSIVE ApplyAliasActions(_, _)
ApplyAliasActions(eng, acts) ==
    IF acts = <<>>
    THEN eng
    ELSE LET act == Head(acts)
             done == {IF x.index # act.index
                      THEN x
                      ELSE [x EXCEPT !.aliases =
                               IF act.action = "remove"
                               THEN x.aliases \ {act.alias}
                               ELSE x.aliases \cup {act.alias}] : x \in eng}
         IN ApplyAliasActions(done, Tail(acts))

\* What the adapters taken on their own leave alone.
unnamedVars == <<engine, cache, pc, locals, retryVars, raceVars, cmVars, cmThreadVars,
                 sel, bulk, lifecycle, obs_cache, lateVars>>

\* create_datetime_index_sync(client, collection_id, start_date)
AdapterCreate(collection_id, start_date) ==
    /\ names.ncalls < MaxNameCalls
    /\ LET index_name == CreatedIndex(collection_id, start_date)
           alias_name == CreatedAlias(collection_id, start_date)
           collection_alias == index_alias_by_collection_id(collection_id)
       IN names' =
            [engine |-> IF \E x \in names.engine : x.index = index_name
                        THEN names.engine
                        ELSE names.engine \cup
                                 {[index |-> index_name,
                                   aliases |-> {collection_alias, alias_name}]},
             returned |-> names.returned \cup
                              {[index |-> index_name, alias |-> alias_name,
                                collection_alias |-> collection_alias]},
             ncalls |-> names.ncalls + 1,
             last |-> [op |-> "create", returned |-> alias_name]]
    /\ UNCHANGED unnamedVars

\* update_index_alias_sync(client, end_date, old_alias)
AdapterUpdate(end_date, old_alias) ==
    /\ names.ncalls < MaxNameCalls
    /\ LET requests == UpdateRequests(end_date, old_alias)
           accepted == NamesKnownIndices(names.engine, requests[1])
       IN names' =
            [names EXCEPT
               !.engine = IF accepted
                          THEN ApplyAliasActions(names.engine, requests[1])
                          ELSE names.engine,
               !.ncalls = names.ncalls + 1,
               !.last = [op |-> "update", end_date |-> end_date, old_alias |-> old_alias,
                         requests |-> requests, raised |-> ~accepted,
                         returned |-> NewAlias(old_alias, end_date),
                         before |-> names.engine]]
    /\ UNCHANGED unnamedVars

NextNames ==
    \/ \E c \in NameCollections, s \in Dates : AdapterCreate(c, s)
    \/ \E e \in Dates, r \in names.returned : AdapterUpdate(e, r.alias)

SpecNames == Init /\ [][NextNames]_vars

(***************************************************************************)
(* The size query.  The engine reports the primary store size of the index *)
(* an alias resolves to in bytes; a size in gigabytes is the quotient of   *)
(* two integers, kept as a fraction, and the configured budget             *)
(* (DATETIME_INDEX_MAX_SIZE_GB) is a fraction as well.                     *)
(***************************************************************************)

\* The largest store size the engine reports.
MaxBytes == 9

\* The divisor of get_index_size_in_gb_sync (1e9), scaled down.
BYTES_PER_GB == 4

\* data["_all"]["primaries"]["store"]["size_in_bytes"]
StoreSizes == 0..MaxBytes

\* float(os.getenv("DATETIME_INDEX_MAX_SIZE_GB", "25")): whole and fractional budgets.
MaxSizesGb == {[num |-> 1, den |-> 1], [num |-> 3, den |-> 2], [num |-> 2, den |-> 1]}

\* a > b for two fractions with positive denominators.
Greater(a, b) == a.num * b.den > b.num * a.den

\* The names a size query is made with: the aliases of the topologies, and
\* one that resolves to nothing.
SizedNames == {<<1>>, <<1, 1>>, <<2>>, <<3>>}

\* Mutant: the size is truncated to whole gigabytes.
get_index_size_in_gb_sync_Floor(size_in_bytes) ==
    [num |-> size_in_bytes \div BYTES_PER_GB, den |-> 1]

\* IndexSizeManager.get_index_size_in_gb_sync: size_in_bytes / 1e9.
get_index_size_in_gb_sync(size_in_bytes) ==
    [num |-> size_in_bytes, den |-> BYTES_PER_GB]

\* Mutant: a partition exactly at the budget is oversized.
is_index_oversized_sync_AtBudget(size_in_bytes, max_size_gb) ==
    ~Greater(max_size_gb, get_index_size_in_gb_sync(size_in_bytes))

\* IndexSizeManager.is_index_oversized_sync: size_gb > self.max_size_gb.
is_index_oversized_sync(size_in_bytes, max_size_gb) ==
    Greater(get_index_size_in_gb_sync(size_in_bytes), max_size_gb)

\* is_index_oversized_sync(index_name) on a manager configured with
\* max_size_gb, when the engine reports size_in_bytes for the index; the
\* stats request on a name that resolves to no index raises.
IsIndexOversizedSync(c, index_name, size_in_bytes, max_size_gb) ==
    /\ sel = NoCall
    /\ sizing' = [called |-> TRUE, index_name |-> index_name,
                  size_in_bytes |-> size_in_bytes, max_size_gb |-> max_size_gb,
                  raised |-> ~AliasExists(engine, c, index_name),
                  answer |-> /\ AliasExists(engine, c, index_name)
                             /\ is_index_oversized_sync(size_in_bytes, max_size_gb)]
    /\ UNCHANGED <<engine, cache, pc, locals, retryVars, raceVars, cmVars, cmThreadVars,
                   sel, bulk, lifecycle, names, obs_cache, singleton, reloads, pair>>

NextSize ==
    \/ \E c \in Collections, n \in SizedNames, b \in StoreSizes, m \in MaxSizesGb :
          IsIndexOversizedSync(c, n, b, m)
    \/ \E eng \in SelTopologies : EngineChanges(eng)
    \/ SelectorRefreshCache
    \/ SelectorReturn

SpecSize == Init /\ [][NextSize]_vars

(***************************************************************************)
(* The construction of the datetime-based selector.  get_target_index and  *)
(* prepare_bulk_actions construct the selector on every call, and the      *)
(* blocking calls of several requests run in threads of one process: a     *)
(* construction is the steps of __new__ and __init__, and the steps of     *)
(* two constructions interleave.                                           *)
(***************************************************************************)

\* The constructions looked at.
MaxConstructions == 3

\* A selector object as super().__new__(cls) returns it: no attribute set.
NewObject == [initialized |-> FALSE, cache_manager |-> 0,
              loader_client |-> "none", loader_cm |-> 0]

unbuiltVars == <<engine, cache, pc, locals, retryVars, raceVars, cmVars, cmThreadVars,
                 sel, bulk, lifecycle, names, obs_cache, sizing, reloads, pair>>

\* __new__: if cls._instance is None
NewSeesNone(instance) == instance = 0

\* SyncDatetimeBasedIndexSelector(client) is called: __new__ tests cls._instance.
NewCheck(t, client) ==
    /\ singleton.tpc[t] = "idle"
    /\ singleton.nconstructions < MaxConstructions
    /\ singleton' = [singleton EXCEPT
                        !.tpc[t] = IF NewSeesNone(singleton.instance)
                                   THEN "new_create" ELSE "new_return",
                        !.tclient[t] = client,
                        !.tself[t] = 0,
                        !.nconstructions = @ + 1,
                        !.overlapped = @ \/ \E u \in SelectorThreads \ {t} :
                                                singleton.tpc[u] # "idle"]
    /\ UNCHANGED unbuiltVars

\* __new__: cls._instance = super().__new__(cls)
NewCreate(t) ==
    /\ singleton.tpc[t] = "new_create"
    /\ singleton' = [singleton EXCEPT
                        !.objs = Append(@, NewObject),
                        !.instance = Len(singleton.objs) + 1,
                        !.tpc[t] = "new_return"]
    /\ UNCHANGED unbuiltVars

\* __new__: return cls._instance
NewReturn(t) ==
    /\ singleton.tpc[t] = "new_return"
    /\ singleton' = [singleton EXCEPT
                        !.tself[t] = singleton.instance,
                        !.tpc[t] = "init_check"]
    /\ UNCHANGED unbuiltVars

\* __init__: if not hasattr(self, "_initialized")
InitCheck(t) ==
    /\ singleton.tpc[t] = "init_check"
    /\ singleton' = [singleton EXCEPT
                        !.tpc[t] = IF singleton.objs[singleton.tself[t]].initialized
                                   THEN "constructed" ELSE "init_cache_manager"]
    /\ UNCHANGED unbuiltVars

\* __init__: self.cache_manager = IndexCacheManager()
InitSelectorCache(t) ==
    /\ singleton.tpc[t] = "init_cache_manager"
    /\ singleton' = [singleton EXCEPT
                        !.ncm = @ + 1,
                        !.objs[singleton.tself[t]].cache_manager = singleton.ncm + 1,
                        !.tpc[t] = "init_alias_loader"]
    /\ UNCHANGED unbuiltVars

\* __init__: self.alias_loader = SyncIndexAliasLoader(sync_client, self.cache_manager)
InitAliasLoader(t) ==
    /\ singleton.tpc[t] = "init_alias_loader"
    /\ LET self == singleton.tself[t] IN
       singleton' = [singleton EXCEPT
                        !.objs[self].loader_client = singleton.tclient[t],
                        !.objs[self].loader_cm = singleton.objs[self].cache_manager,
                        !.reload_client = IF @ = "none" THEN singleton.tclient[t] ELSE @,
                        !.tpc[t] = "init_initialized"]
    /\ UNCHANGED unbuiltVars

\* __init__: self._initialized = True
InitInitialized(t) ==
    /\ singleton.tpc[t] = "init_initialized"
    /\ singleton' = [singleton EXCEPT
                        !.objs[singleton.tself[t]].initialized = TRUE,
                        !.tpc[t] = "constructed"]
    /\ UNCHANGED unbuiltVars

\* The caller uses the selector it constructed: a read that finds no fresh
\* snapshot loads one into the cache manager of the selector's alias loader.
UseSelector(t) ==
    /\ singleton.tpc[t] = "constructed"
    /\ LET o == singleton.objs[singleton.tself[t]] IN
       singleton' = [singleton EXCEPT
                        !.loaded = @ \cup {o.loader_cm},
                        !.returned = @ \cup {[obj |-> singleton.tself[t],
                                              cache_manager |-> o.cache_manager,
                                              loader_cm |-> o.loader_cm,
                                              client |-> o.loader_client]},
                        !.tpc[t] = "idle"]
    /\ UNCHANGED unbuiltVars

NextSingleton ==
    \/ \E t \in SelectorThreads, k \in SelectorClients : NewCheck(t, k)
    \/ \E t \in SelectorThreads : NewCreate(t)
    \/ \E t \in SelectorThreads : NewReturn(t)
    \/ \E t \in SelectorThreads : InitCheck(t)
    \/ \E t \in SelectorThreads : InitSelectorCache(t)
    \/ \E t \in SelectorThreads : InitAliasLoader(t)
    \/ \E t \in SelectorThreads : InitInitialized(t)
    \/ \E t \in SelectorThreads : UseSelector(t)

SpecSingleton == Init /\ [][NextSingleton]_vars

(***************************************************************************)
(* The two kinds of write on one item.  After a single-item write has      *)
(* returned, the engine and the cache are put back as that write found     *)
(* them and prepare_bulk_actions is called with a batch that holds the     *)
(* same item; the result of the single-item write is kept for comparison.  *)
(* The TTL of a snapshot does not run out while the two are compared.      *)
(***************************************************************************)

\* get_target_index(c, dt), when no comparison is under way.
PairSingle(c, dt) ==
    /\ ~pair.kept
    /\ StartObserved(c, dt)

\* prepare_bulk_actions(c, items), when no comparison is under way.
PairBulk(c, first_item) ==
    /\ ~pair.kept
    /\ StartUnobserved(c, first_item)

\* prepare_bulk_actions(coll, [item]) on the topology and the cache the
\* single-item write of the same item started from.
Replay ==
    /\ pc = "idle" /\ status = "ok" /\ op = "single"
    /\ ~pair.kept
    /\ pair' = [kept |-> TRUE, engine |-> engine, target |-> target_index,
                oversized |-> oversized]
    /\ engine' = pre
    /\ cache' = obs_cache
    /\ pc' = "ensure"
    /\ op' = "bulk" /\ ctx' = "none"
    /\ items' = <<items[1]>> /\ idx' = 1 /\ product' = items[1]
    /\ check_size' = CheckSizeBulk
    /\ target_index' = {} /\ all_indexes' = {} /\ latest_index' = NoAlias
    /\ split_info' = NoSplit /\ actions' = <<>>
    /\ oversized' = "unknown" /\ sized_index' = NoAlias
    /\ nstats' = 0 /\ nrollover' = 0 /\ nwrites' = 0 /\ status' = "running"
    /\ UNCHANGED <<coll, pre>>
    /\ UNCHANGED <<retryVars, raceVars, cmVars, cmThreadVars, sel, bulk, lifecycle, names,
                   obs_cache, sizing, singleton, reloads>>

\* The comparison is over: the batch write is a write like any other.
Forget ==
    /\ pc = "idle"
    /\ pair.kept
    /\ pair' = NoPair
    /\ UNCHANGED <<engine, cache, pc, locals, retryVars, raceVars, cmVars, cmThreadVars,
                   sel, bulk, lifecycle, names, obs_cache, sizing, singleton, reloads>>

NextPair ==
    \/ \E c \in Collections, dt \in Datetimes : PairSingle(c, dt)
    \/ \E c \in Collections, dt \in Datetimes : PairBulk(c, dt)
    \/ Replay
    \/ Forget
    \/ SelectIndexes
    \/ GetCollectionIndexes
    \/ HandleNewCollection
    \/ HandleEarlyDateCreate
    \/ HandleEarlyDateAlias
    \/ CheckSize
    \/ HandleOversizedAlias
    \/ HandleOversizedCreate
    \/ RefreshCache
    \/ EnsureIndexesExist
    \/ EnsureCreate
    \/ EnsureRefresh
    \/ HandleIndexSplitting
    \/ SplitStats
    \/ SplitAlias
    \/ SplitCreate
    \/ CreateBulkActions

SpecPair == Init /\ [][NextPair]_vars

(***************************************************************************)
(* Non-blocking alias reloads.  AsyncIndexAliasLoader.load_aliases         *)
(* suspends at the get_alias request: the engine answers the request from  *)
(* the topology it holds at that moment, and the coroutine stores the      *)
(* answer when the event loop resumes it.  The coroutines of several       *)
(* requests in flight are resumed in any order.                            *)
(***************************************************************************)

\* The reloads started and the changes of the topology looked at.
MaxReloads == 3
MaxChanges == 2

unreloadedVars == <<pc, locals, retryVars, raceVars, cmVars, cmThreadVars,
                    sel, bulk, lifecycle, names, obs_cache, sizing, singleton, pair>>

\* client.indices.get_alias(index = "items_*") as load_aliases reads it.
get_alias(eng) == load_aliases(eng)

\* refresh_aliases, or get_aliases without a fresh snapshot: load_aliases
\* sends the get_alias request and suspends.
ReloadSend(t) ==
    /\ reloads.rpc[t] = "idle"
    /\ reloads.nsent < MaxReloads
    /\ reloads' = [reloads EXCEPT !.rpc[t] = "sent", !.nsent = @ + 1]
    /\ UNCHANGED <<engine, cache>>
    /\ UNCHANGED unreloadedVars

\* The engine answers the request of task t.
EngineAnswers(t) ==
    /\ reloads.rpc[t] = "sent"
    /\ reloads' = [reloads EXCEPT !.rpc[t] = "answered",
                                  !.response[t] = get_alias(engine),
                                  !.read_since_change = TRUE]
    /\ UNCHANGED <<engine, cache>>
    /\ UNCHANGED unreloadedVars

\* load_aliases is resumed with its response: set_cache(result), return.
ReloadResume(t) ==
    /\ reloads.rpc[t] = "answered"
    /\ cache' = [fresh |-> TRUE, data |-> reloads.response[t]]
    /\ reloads' = [reloads EXCEPT !.rpc[t] = "idle"]
    /\ UNCHANGED engine
    /\ UNCHANGED unreloadedVars

\* A write changes the topology of the engine.
TopologyChange(eng) ==
    /\ eng # engine
    /\ reloads.nchanges < MaxChanges
    /\ engine' = eng
    /\ reloads' = [reloads EXCEPT !.nchanges = @ + 1, !.read_since_change = FALSE]
    /\ UNCHANGED cache
    /\ UNCHANGED unreloadedVars

NextReload ==
    \/ \E t \in ReloadTasks : ReloadSend(t)
    \/ \E t \in ReloadTasks : EngineAnswers(t)
    \/ \E t \in ReloadTasks : ReloadResume(t)
    \/ \E eng \in SelTopologies : TopologyChange(eng)

SpecReload == Init /\ [][NextReload]_vars

(***************************************************************************)
(* Vocabulary of the properties                                            *)
(***************************************************************************)

\* The partitions of collection c in topology eng, one record per alias.
Partitions(eng, c) == {r \in eng : r.c = c}

OpenPartitions(eng, c) == {r \in Partitions(eng, c) : IsOpen(r.a)}

Idle == pc = "idle"
Completed == pc = "idle" /\ status = "ok"

\* A target string that names exactly one alias of the partition starting at s.
TargetsPartition(t, s) ==
    Cardinality(t) = 1 /\ extract_first_date_from_index(TheAlias(t)) = s

ExactlyOneOpen(eng, c) ==
    /\ Cardinality(OpenPartitions(eng, c)) = 1
    /\ \A r \in Partitions(eng, c) : IsOpen(r.a) \/ IsClosed(r.a)

\* C1 as stated: in every reachable state, also between the engine calls of
\* one write, every collection that has a partition has exactly one open
\* partition and all its other partitions are closed.
C1_OneOpenAtAnyTime ==
    \A c \in Collections : Partitions(engine, c) # {} => ExactlyOneOpen(engine, c)

\* C1 amended: whenever no write is in progress (before a write starts, after
\* it returned or raised), every collection that has a partition has exactly
\* one open partition and all its other partitions are closed.
C1_OneOpenBetweenWrites ==
    Idle => \A c \in Collections :
                Partitions(engine, c) # {} => ExactlyOneOpen(engine, c)

C1_Witness ==
    /\ Completed
    /\ nrollover = 1
    /\ Cardinality(Partitions(engine, coll)) >= 3
    /\ \E r \in Partitions(engine, coll) : IsClosed(r.a)

\* The partition of collection c that follows r by start date, if any.
Followers(eng, c, r) ==
    {n \in Partitions(eng, c) :
        extract_first_date_from_index(n.a) > extract_first_date_from_index(r.a)}

Contiguous(eng, c) ==
    /\ \A r1, r2 \in Partitions(eng, c) :
          r1 # r2 => extract_first_date_from_index(r1.a) # extract_first_date_from_index(r2.a)
    /\ \A r \in Partitions(eng, c) :
          IsClosed(r.a) =>
             /\ Followers(eng, c, r) # {}
             /\ \A n \in Followers(eng, c, r) :
                   r.a[2] <= extract_first_date_from_index(n.a) - 1
             /\ \E n \in Followers(eng, c, r) :
                   r.a[2] = extract_first_date_from_index(n.a) - 1

\* C2: after any sequence of completed single-item and batch writes, the
\* partitions of a collection have pairwise distinct start dates and every
\* closed partition's end date is one day before the next partition's start.
C2_ContiguousCoverage ==
    Idle => \A c \in Collections : Contiguous(engine, c)

C2_Witness ==
    /\ Completed
    /\ op = "bulk"
    /\ Cardinality({r \in Partitions(engine, coll) : IsClosed(r.a)}) >= 2
    /\ \E r \in Partitions(pre, coll) : r \notin engine


\* The dates of the items of the running write.
ItemDate(k) == extract_date(items[k])

SameDayBatch == \A k \in 1..Len(items) : ItemDate(k) = ItemDate(1)

\* C3: the first write to a collection without partitions (a single item, or
\* a batch whose items are all on one date) creates exactly one partition,
\* which is open and starts on the date of the first item.
C3_FirstWriteCreatesOneOpen ==
    (Completed /\ Partitions(pre, coll) = {} /\ SameDayBatch) =>
        Partitions(engine, coll) =
            {[c |-> coll, i |-> <<ItemDate(1)>>, a |-> <<ItemDate(1)>>]}

C3_Witness ==
    /\ Completed
    /\ op = "bulk"
    /\ Partitions(pre, coll) = {}
    /\ SameDayBatch
    /\ Len(items) >= 2
    /\ items[1] # items[2]
    /\ oversized = "yes"

\* The single-item write found the open partition of the pre-state oversized.
SingleOversized ==
    /\ Completed
    /\ op = "single"
    /\ oversized = "yes"
    /\ [c |-> coll, i |-> sized_index, a |-> sized_index] \in pre

\* C4: a single-item write dated D that routes into the open partition S,
\* finds it oversized and has D # S closes S with end date D and creates an
\* open partition starting at D + 1.
C4_SingleRollover ==
    (SingleOversized /\ ItemDate(1) # extract_first_date_from_index(sized_index)) =>
        engine = (pre \ {[c |-> coll, i |-> sized_index, a |-> sized_index]})
                   \cup {[c |-> coll, i |-> sized_index,
                          a |-> <<extract_first_date_from_index(sized_index), ItemDate(1)>>],
                         [c |-> coll, i |-> <<ItemDate(1) + 1>>, a |-> <<ItemDate(1) + 1>>]}

C4_Witness ==
    /\ SingleOversized
    /\ ItemDate(1) > extract_first_date_from_index(sized_index)
    /\ Cardinality(Partitions(pre, coll)) >= 2

\* A write that performed a rollover after the size query on sized_index.
RolledOver == Completed /\ nrollover >= 1 /\ oversized = "yes"

\* C5 as stated: when a write of an item dated D rolls the oversized open
\* partition over, that item and every other item dated D resolve to the old
\* partition, and only items dated after D resolve to the new partition.
C5_RolloverDayStaysInOld ==
    RolledOver =>
        \A k \in 1..Len(actions) :
            /\ ItemDate(k) = ItemDate(1) =>
                  TargetsPartition(actions[k], extract_first_date_from_index(sized_index))
            /\ (\E r \in engine \ pre : IsOpen(r.a) /\ actions[k] = {r.a}) =>
                  ItemDate(k) > ItemDate(1)

\* C6 as stated: with the open partition oversized and the item (the first
\* item of a batch) dated on its start day, the write renames no alias and
\* creates no partition, and the item resolves to the open partition.
C6_SameDayNoChange ==
    (/\ Completed
     /\ oversized = "yes"
     /\ [c |-> coll, i |-> sized_index, a |-> sized_index] \in pre
     /\ ItemDate(1) = extract_first_date_from_index(sized_index)) =>
        /\ engine = pre
        /\ actions[1] = {sized_index}

\* No item of the write is dated before the earliest partition of the pre-state.
NoEarlyItem ==
    \A k \in 1..Len(items) : \A r \in Partitions(pre, coll) :
        ItemDate(k) >= extract_first_date_from_index(r.a)
            \/ \E q \in Partitions(pre, coll) :
                  extract_first_date_from_index(q.a) < extract_first_date_from_index(r.a)

\* C6 amended: the same, for a single-item write and for a batch none of
\* whose items is dated before the collection's earliest partition.
C6_SameDayNoRollover ==
    (/\ Completed
     /\ oversized = "yes"
     /\ [c |-> coll, i |-> sized_index, a |-> sized_index] \in pre
     /\ ItemDate(1) = extract_first_date_from_index(sized_index)
     /\ NoEarlyItem) =>
        /\ engine = pre
        /\ actions[1] = {sized_index}

C6_Witness ==
    /\ Completed
    /\ op = "bulk"
    /\ oversized = "yes"
    /\ [c |-> coll, i |-> sized_index, a |-> sized_index] \in pre
    /\ ItemDate(1) = extract_first_date_from_index(sized_index)
    /\ NoEarlyItem
    /\ Len(items) = 3
    /\ ItemDate(2) > ItemDate(1)
    /\ Cardinality(Partitions(pre, coll)) >= 2

\* The batch [item dated D, item dated D + 1] written to a collection whose
\* only partition starts on D and is found oversized.
C7_Case ==
    /\ Completed
    /\ op = "bulk"
    /\ Len(items) = 2
    /\ ItemDate(2) = ItemDate(1) + 1
    /\ Partitions(pre, coll) = {[c |-> coll, i |-> <<ItemDate(1)>>, a |-> <<ItemDate(1)>>]}
    /\ oversized = "yes"

C8_SplitAtFirstItemDate ==
    (Completed /\ op = "bulk" /\ split_info.split) =>
        /\ split_info.split_date = ItemDate(1)
        /\ split_info.new_index = <<ItemDate(1) + 1>>
        /\ [c |-> coll, i |-> latest_index,
            a |-> Append(latest_index, ItemDate(1))] \in engine
        /\ [c |-> coll, i |-> <<ItemDate(1) + 1>>, a |-> <<ItemDate(1) + 1>>] \in engine

\* C9: in a batch for which a split point was computed, every item dated
\* after the split date is targeted at the new partition, and every item
\* dated on or before it, but not before the old partition's start, at the
\* old partition (under its open or its closed alias), at any position.
C9_SplitRouting ==
    (Completed /\ op = "bulk" /\ split_info.split) =>
        \A k \in 1..Len(items) :
            /\ ItemDate(k) > split_info.split_date =>
                  actions[k] = {split_info.new_index}
            /\ (/\ ItemDate(k) <= split_info.split_date
                /\ ItemDate(k) >= extract_first_date_from_index(latest_index)) =>
                  TargetsPartition(actions[k], extract_first_date_from_index(latest_index))

C9_Witness ==
    /\ Completed
    /\ op = "bulk"
    /\ split_info.split
    /\ Len(items) = 3
    /\ ItemDate(2) = split_info.split_date
    /\ ItemDate(3) > split_info.split_date
    /\ ItemDate(3) # ItemDate(1)

\* C10: one prepare_bulk_actions call issues at most one index stats query
\* and performs at most one rollover.
C10_OneSizeCheckPerBatch ==
    op = "bulk" => nstats <= 1 /\ nrollover <= 1

C10_Witness ==
    /\ Completed
    /\ op = "bulk"
    /\ Len(items) = MaxBatch
    /\ nstats = 1
    /\ nrollover = 1
    /\ \E k \in 2..Len(items) : ItemDate(k) <= split_info.split_date


\* The resolution of an item dated before the earliest known partition is
\* about to return (the step that leaves "gti_refresh").
EarlyCase ==
    /\ pc = "gti_refresh"
    /\ all_indexes # {}
    /\ extract_date(product) < extract_first_date_from_index(FirstIndex(all_indexes))

\* C11: for an item dated d before the start E of the earliest known
\* partition, a new partition starting at d is created, its own alias is
\* renamed with end date E - 1, the item resolves to the renamed alias and
\* the cache is reloaded before the resolution returns.
C11_EarlyDatePartition ==
    [][(EarlyCase /\ pc' # pc) =>
          LET d == extract_date(product)
              E == extract_first_date_from_index(FirstIndex(all_indexes)) IN
          /\ ~IndexExists(pre, coll, <<d>>)
          /\ [c |-> coll, i |-> <<d>>, a |-> <<d, E - 1>>] \in engine'
          /\ ~AliasExists(engine', coll, <<d>>)
          /\ target_index' = {<<d, E - 1>>}
          /\ cache' = [fresh |-> TRUE, data |-> load_aliases(engine')]]_vars

C11_Witness ==
    /\ Completed
    /\ op = "bulk"
    /\ Len(items) = 3
    /\ Partitions(pre, coll) # {}
    /\ \A r \in Partitions(pre, coll) : ItemDate(2) < extract_first_date_from_index(r.a)
    /\ ItemDate(1) > ItemDate(2)
    /\ \E e \in Dates : /\ actions[2] = {<<ItemDate(2), e>>}
                        /\ [c |-> coll, i |-> <<ItemDate(2)>>, a |-> <<ItemDate(2), e>>] \in engine
    /\ cache.fresh

\* The start date of the earliest partition of the pre-state.
EarliestStart(eng, c) ==
    extract_first_date_from_index(FirstIndex({r.a : r \in Partitions(eng, c)}))

\* A completed single-item write dated before the earliest partition.
SingleEarly ==
    /\ Completed
    /\ op = "single"
    /\ Partitions(pre, coll) # {}
    /\ ItemDate(1) < EarliestStart(pre, coll)

C13_CacheFreshAfterWrite ==
    (Idle /\ cache.fresh) => cache.data = load_aliases(engine)

\* The alias whose rename the writer is about to request.
RenamedAlias == IF pc = "split_alias" THEN latest_index ELSE TheAlias(target_index)

RenamePending == pc \in {"gti_early_alias", "gti_over_alias", "split_alias"}

\* C14: over any sequence of writes an alias rename is only requested for a
\* partition that is open, and a closed partition keeps its closed alias.
C14_ClosedOnce ==
    [][/\ RenamePending =>
            /\ IsOpen(RenamedAlias)
            /\ [c |-> coll, i |-> RenamedAlias, a |-> RenamedAlias] \in engine
       /\ \A r \in engine : IsClosed(r.a) => r \in engine'
       /\ \A r \in engine' : IsOpen(r.a) => (r \in engine \/ ~IndexExists(engine, r.c, r.i))]_vars

C14_Witness ==
    /\ Completed
    /\ \E r \in Partitions(pre, coll) : IsClosed(r.a) /\ r \in engine
    /\ \E r \in Partitions(pre, coll) :
          /\ IsOpen(r.a)
          /\ r \notin engine
          /\ \E q \in Partitions(engine, coll) : q.i = r.i /\ IsClosed(q.a)


\* A create request is about to be issued, for the index starting at CreateStart.
CreatePending == pc \in {"gti_new", "gti_early_create", "gti_over_create"}

CreateStart ==
    IF pc = "gti_over_create"
    THEN OversizedNextStart(TheAlias(target_index), product)
    ELSE extract_date(product)

UninterruptedSingle(eng, c, dt, big) ==
    LET all == load_aliases(eng)[c]
        d == extract_date(dt) IN
    IF all = {}
    THEN create_datetime_index_sync(eng, c, d)
    ELSE IF d < extract_first_date_from_index(FirstIndex(all))
    THEN update_index_alias_sync(create_datetime_index_sync(eng, c, d), c,
             EarlyEndDate(extract_first_date_from_index(FirstIndex(all))), <<d>>)
    ELSE IF filter_indexes_by_datetime(all, dt, dt) # {LastIndex(all)}
    THEN eng
    ELSE IF big /\ OversizedNeedsSplit(LastIndex(all), dt)
    THEN create_datetime_index_sync(
             update_index_alias_sync(eng, c, OversizedEndDate(LastIndex(all), dt),
                                     LastIndex(all)),
             c, OversizedNextStart(LastIndex(all), dt))
    ELSE eng

\* The first attempt started from a topology without partitions or from one
\* with one open partition and contiguous closed ones.
CleanStart ==
    \/ Partitions(pre, coll) = {}
    \/ ExactlyOneOpen(pre, coll) /\ Contiguous(pre, coll)

\* C17 as stated: a write that was abandoned after any prefix of its engine
\* calls and is retried succeeds, and the topology it ends in is the one an
\* uninterrupted execution of that write would have produced.
C17_RetryConverges ==
    (Idle /\ op = "retry" /\ status # "abandoned" /\ CleanStart) =>
        /\ status = "ok"
        /\ \E big \in BOOLEAN : engine = UninterruptedSingle(pre, coll, items[1], big)


\* The topology one rollover leaves behind when it runs alone.
RolloverAlone(eng, c, alias, dt) ==
    create_datetime_index(
        update_index_alias(eng, c, OversizedEndDate(alias, dt), alias),
        c, OversizedNextStart(alias, dt))

\* Both writers performed the rollover and have returned.
BothRolledOver ==
    /\ \A w \in Writers : wpc[w] = "done"
    /\ \A w \in Writers : wtarget[w] = <<OversizedNextStart(NoAlias, wproduct[w])>>

\* C15: when two concurrent writers both found the open partition oversized
\* and both performed the rollover, every interleaving of their engine calls
\* ends in one and the same topology, the one the two rollovers give when
\* they run one after the other.
C15_RaceConverges ==
    BothRolledOver =>
        LET open == CHOOSE r \in pre : IsOpen(r.a) IN
        engine = RolloverAlone(RolloverAlone(pre, coll, open.a, wproduct[1]),
                               coll, open.a, wproduct[2])

C15_Witness ==
    /\ BothRolledOver
    /\ extract_date(wproduct[1]) # extract_date(wproduct[2])
    /\ \E r1, r2 \in engine : r1.i = r2.i /\ r1.a # r2.a /\ IsClosed(r1.a) /\ IsClosed(r2.a)
    /\ Cardinality(OpenPartitions(engine, coll)) = 2


\* C18: get_cache called right after set_cache(data) returns data as it was
\* passed, for every mapping data, the empty mapping included.
C18_GetAfterSet ==
    (cm_last = "get" /\ cm_got.after = "set") => cm_got.result = Some(cm_hist.data)

C18_Witness ==
    /\ cm_last = "get"
    /\ cm_got.after = "set"
    /\ cm_hist.data = EmptyMapping
    /\ cm_got.result = Some(EmptyMapping)
    /\ cm_ticks > 0

\* C19: get_cache returns the snapshot stored at time t exactly while
\* now - t <= TTL, and None when it is older, when nothing was stored yet and
\* when the cache was cleared after the last store.
C19_ExpiryWindow ==
    cm_last = "get" =>
        cm_got.result = IF cm_hist.kind = "set" /\ cm_got.at - cm_hist.at <= cache_ttl_seconds
                        THEN Some(cm_hist.data)
                        ELSE None

C19_Witness ==
    /\ cm_last = "get"
    /\ cm_hist.kind = "set"
    /\ cm_got.at - cm_hist.at = cache_ttl_seconds
    /\ cm_got.result = Some(cm_hist.data)
    /\ cm_hist.data # EmptyMapping


\* A get_cache call of the reading thread has returned.
ReaderReturned == cpc["r"] = "idle" /\ cm_got.after \in {"check", "return"}

\* C20 as stated: with readers and writers interleaved at any point, every
\* get_cache returns None or one complete snapshot that some set_cache call
\* was given, and never a snapshot that was already expired, by the clock
\* reading of its own set_cache call, when the call tested its validity.
C20_ReaderGetsValidSnapshot ==
    ReaderReturned =>
        \/ cm_got.result = None
        \/ \E n \in 1..cm_nloads :
              /\ cm_got.result = Some(LoadedSnapshot(n))
              /\ \A s \in cm_stamps :
                    s.load = n => cm_got.at - s.at <= cache_ttl_seconds

\* The cache manager held a snapshot that had not expired when the call began.
FreshBefore ==
    sel.before.cache.some /\ ~is_expired(sel.before.timestamp, now)

\* The call looked at the aliases of a collection that the snapshot lacks.
AsksAbsentCollection ==
    \E k \in 1..Len(sel.ids.list) : sel.ids.list[k] \notin Collections

\* C21: a select_indexes or get_collection_indexes call that begins while the
\* cache holds a fresh snapshot issues no get-alias call and leaves the
\* snapshot and its timestamp as they were, whatever collections and range
\* it is given; a get-alias call is issued only by refresh_cache or by a read
\* that found no snapshot or an expired one.
C21_FreshReadsDoNotReload ==
    /\ (sel.op \in {"select", "get_collection_indexes"} /\ FreshBefore) =>
          /\ sel.loads = 0
          /\ cm_cache = sel.before.cache
          /\ cm_timestamp = sel.before.timestamp
    /\ sel.loads > 0 => (sel.op = "refresh_cache" \/ ~FreshBefore)

C21_Witness ==
    /\ sel.op = "select"
    /\ FreshBefore
    /\ AsksAbsentCollection
    /\ sel.reads = 2
    /\ sel.loads = 0
    /\ sel.rng.gte # NoDatetime
    /\ now > sel.before.timestamp
    /\ load_aliases(engine) # sel.before.cache.data

\* The partitions of collection c in the snapshot the cache manager holds.
KnownPartitions(c) == IF cm_cache.some THEN AliasesOf(cm_cache.data, c) ELSE {}

\* The partitions of collection c that the returned string names.
SelectedOf(c) == {n[2] : n \in {m \in sel.result.names : m[1] = c}}

\* Partition p of c meets the range: it starts no later than lte, and every
\* partition of c that starts after it (so the next one) starts after gte.
MeetsRange(c, p, rng) ==
    /\ (rng.lte # NoDatetime => p[1] <= rng.lte.day)
    /\ (rng.gte # NoDatetime =>
           \A q \in KnownPartitions(c) : q[1] > p[1] => q[1] > rng.gte.day)

\* C22: the datetime-filtered select_indexes called with explicit collection
\* ids returns, for each named collection, exactly the partitions p of that
\* collection with p.start <= lte and with no next partition or
\* next.start > gte, a bound that is not given restricting nothing, and it
\* names no partition of any other collection.
C22_SelectsIntersectingPartitions ==
    (sel.op = "select" /\ sel.ids.given /\ sel.ids.list # <<>>) =>
        /\ sel.result.kind = "names"
        /\ \A k \in 1..Len(sel.ids.list) :
              SelectedOf(sel.ids.list[k]) =
                  {p \in KnownPartitions(sel.ids.list[k]) :
                      MeetsRange(sel.ids.list[k], p, sel.rng)}
        /\ \A n \in sel.result.names : \E k \in 1..Len(sel.ids.list) : n[1] = sel.ids.list[k]

C22_Witness ==
    /\ sel.op = "select"
    /\ Len(sel.ids.list) = 1
    /\ sel.rng.gte # NoDatetime
    /\ sel.rng.lte # NoDatetime
    /\ Cardinality(KnownPartitions(sel.ids.list[1])) = 3
    /\ Cardinality(sel.result.names) = 1
    /\ \E p \in KnownPartitions(sel.ids.list[1]) :
          /\ p[1] <= sel.rng.lte.day
          /\ <<sel.ids.list[1], p>> \notin sel.result.names

\* The call was given no collection id: None or the empty list.
NoCollectionIds == ~sel.ids.given \/ sel.ids.list = <<>>

\* C23: the datetime-filtered select_indexes called with no collection ids
\* (None or an empty list) returns the catalog-wide wildcard pattern for
\* every datetime range, asks the cache manager for nothing, issues no
\* get-alias call and leaves the cache manager as it was.
C23_NoIdsGivesWildcard ==
    (sel.op = "select" /\ NoCollectionIds) =>
        /\ sel.result = ITEM_INDICES
        /\ sel.reads = 0
        /\ sel.loads = 0
        /\ cm_cache = sel.before.cache
        /\ cm_timestamp = sel.before.timestamp

C23_Witness ==
    /\ sel.op = "select"
    /\ sel.ids = Ids(<<>>)
    /\ sel.rng.gte # NoDatetime
    /\ sel.rng.lte # NoDatetime
    /\ sel.before.cache.some
    /\ ~FreshBefore
    /\ sel.result = ITEM_INDICES
    /\ engine # {}

\* No partition of any collection the call names meets its range.
NothingMatches ==
    \A k \in 1..Len(sel.ids.list) :
        \A p \in KnownPartitions(sel.ids.list[k]) :
            ~MeetsRange(sel.ids.list[k], p, sel.rng)

\* C24: the datetime-filtered select_indexes called with at least one
\* explicit collection id, none of which has a partition that meets the
\* range (a collection unknown to the snapshot, or no intersecting
\* partition), returns the empty string and never the wildcard pattern.
C24_NoMatchGivesEmptyString ==
    (sel.op = "select" /\ ~NoCollectionIds /\ NothingMatches) =>
        /\ sel.result = Joined({})
        /\ sel.result # ITEM_INDICES

C24_Witness ==
    /\ sel.op = "select"
    /\ Len(sel.ids.list) = 2
    /\ AsksAbsentCollection
    /\ \E k \in 1..2 : KnownPartitions(sel.ids.list[k]) # {}
    /\ NothingMatches
    /\ sel.result = Joined({})

\* C25: the unfiltered select_indexes returns, for every list of collection
\* ids and every datetime range, what it returns for the same ids and no
\* range, and neither it nor the unfiltered refresh_cache reads the alias
\* cache, issues a get-alias call or changes the cache manager.
C25_UnfilteredIgnoresRange ==
    /\ sel.op = "unfiltered_select" =>
          sel.result =
              unfiltered_select_indexes(sel.ids, NoRange, sel.before.cache,
                                        sel.before.timestamp, now, engine).result
    /\ sel.op \in {"unfiltered_select", "unfiltered_refresh"} =>
          /\ sel.reads = 0
          /\ sel.loads = 0
          /\ cm_cache = sel.before.cache
          /\ cm_timestamp = sel.before.timestamp

C25_Witness ==
    /\ sel.op = "unfiltered_select"
    /\ Len(sel.ids.list) = 2
    /\ sel.rng.gte # NoDatetime
    /\ sel.rng.lte # NoDatetime
    /\ sel.rng.lte.day < sel.rng.gte.day
    /\ sel.before.cache.some
    /\ ~FreshBefore
    /\ sel.result.kind = "collections"
    /\ Cardinality(sel.result.names) = 2

\* C26 as stated: prepare_bulk_actions returns one action per item of the
\* batch, in the order of the batch, whose document id is the item's id,
\* "|" and the collection id of the batch, and whose body is the item.
C26_IdsNameBatchCollection ==
    bulk.called =>
        /\ Len(bulk.actions) = Len(bulk.items)
        /\ \A k \in 1..Len(bulk.items) :
              /\ bulk.actions[k].id = mk_item_id(bulk.items[k].id, bulk.collection_id)
              /\ bulk.actions[k].source = bulk.items[k]

\* The write that ended was handed an item that carries no datetime.
HandedMissingDatetime ==
    /\ pc = "idle"
    /\ status \in {"ok", "error", "bad_request"}
    /\ \E k \in 1..Len(items) : items[k] = NoDatetime

\* C27 as stated: in datetime mode a write that is handed an item without a
\* datetime ends with the bad-request error, for a single item and at every
\* position of a batch.
C27_MissingDatetimeIsBadRequest ==
    HandedMissingDatetime => status = "bad_request"

\* C28: for new-collection, early-date and oversized rollover, run from any
\* engine state, the blocking and the non-blocking variant send the same
\* requests, in the same order and with the same arguments, raise or return
\* alike, return the same partition name and leave the same engine.
C28_VariantsAgree ==
    lifecycle.op.name # "none" => lifecycle.blocking = lifecycle.nonblocking

C28_Witness ==
    /\ lifecycle.op.name = "oversized"
    /\ Len(lifecycle.nonblocking.calls) = 2
    /\ ~lifecycle.nonblocking.raised
    /\ lifecycle.nonblocking.calls[1].call = "indices.update_aliases"
    /\ lifecycle.nonblocking.ret # lifecycle.op.target
    /\ lifecycle.nonblocking.engine # lifecycle.op.engine
    /\ lifecycle.blocking.ret = lifecycle.nonblocking.ret

\* The records of create_datetime_index calls that returned the alias that
\* the last update_index_alias call was given.
CreatedAs(old_alias) == {r \in names.returned : r.alias = old_alias}

\* C29: update_index_alias(end_date, old_alias), given an alias that
\* create_datetime_index returned, sends one request that holds a remove and
\* an add action for one index, which is the index that create call made;
\* the engine accepts it, and afterwards that index carries
\* old_alias-end_date instead of old_alias and still carries its collection
\* alias, while every other index carries the aliases it carried before.
C29_RenameTouchesOnePartition ==
    names.last.op = "update" =>
        \A r \in CreatedAs(names.last.old_alias) :
            /\ Len(names.last.requests) = 1
            /\ Len(names.last.requests[1]) = 2
            /\ \A k \in 1..2 : names.last.requests[1][k].index = r.index
            /\ ~names.last.raised
            /\ \A x \in names.last.before :
                  IF x.index = r.index
                  THEN /\ [index |-> x.index,
                           aliases |-> (x.aliases \ {names.last.old_alias})
                                           \cup {names.last.returned}] \in names.engine
                       /\ r.collection_alias \in x.aliases
                       /\ names.last.returned =
                              names.last.old_alias \o <<"-", names.last.end_date>>
                  ELSE x \in names.engine
            /\ Cardinality(names.engine) = Cardinality(names.last.before)

C29_Witness ==
    /\ names.last.op = "update"
    /\ ~names.last.raised
    /\ Cardinality(names.engine) = 3
    /\ \E x \in names.last.before : names.last.old_alias \in x.aliases
    /\ \E x \in names.engine :
          /\ names.last.returned \in x.aliases
          /\ names.last.old_alias \notin x.aliases
          /\ Cardinality(x.aliases) = 2
    /\ names.last.old_alias[1] = ITEMS_INDEX_PREFIX

\* A single-item write returned a partition that is not the latest one of
\* the list it read, without any size query.
RoutedToNonLatest ==
    /\ Completed /\ op = "single"
    /\ all_indexes # {}
    /\ extract_date(items[1]) >= extract_first_date_from_index(FirstIndex(all_indexes))
    /\ target_index \subseteq all_indexes
    /\ target_index # {LastIndex(all_indexes)}

\* A single-item write found the latest partition within its size budget.
RoutedToOpenNotOversized ==
    /\ Completed /\ op = "single"
    /\ all_indexes # {}
    /\ extract_date(items[1]) >= extract_first_date_from_index(FirstIndex(all_indexes))
    /\ oversized = "no"
    /\ target_index = {LastIndex(all_indexes)}

\* C30 as stated: a write whose item routes into the open partition that is
\* not oversized, or into a non-latest partition, sends no create and no
\* alias-update request, leaves the engine topology as it was and leaves
\* the cache snapshot as it was when the write started; for a non-latest
\* target it sends no size query either.
C30_RoutingLeavesCacheAsItWas ==
    (RoutedToNonLatest \/ RoutedToOpenNotOversized) =>
        /\ nwrites = 0
        /\ engine = pre
        /\ (cache.fresh => cache = obs_cache)
        /\ (RoutedToNonLatest => nstats = 0)

\* C30, amended: such a write sends no create and no alias-update request,
\* leaves the engine topology as it was and forces no reload of the cache:
\* the snapshot it leaves is the one it found or, when it found none or the
\* snapshot expired on the way, a load of the unchanged engine; for a
\* non-latest target it sends no size query either.
C30_RoutingChangesNoTopology ==
    (RoutedToNonLatest \/ RoutedToOpenNotOversized) =>
        /\ nwrites = 0
        /\ nrollover = 0
        /\ engine = pre
        /\ (cache.fresh => (cache = obs_cache \/ cache = CacheAfterLoad(engine)))
        /\ (RoutedToNonLatest => nstats = 0)
        /\ (RoutedToOpenNotOversized => nstats = 1)

C30_Witness ==
    /\ RoutedToNonLatest
    /\ obs_cache.fresh
    /\ cache = obs_cache
    /\ cache # CacheAfterLoad(engine)
    /\ Cardinality(all_indexes) >= 2
    /\ nwrites = 0

\* The budget in bytes, times the budget's denominator.
OverBudget(size_in_bytes, max_size_gb) ==
    size_in_bytes * max_size_gb.den > max_size_gb.num * BYTES_PER_GB

\* C31: is_index_oversized reports true exactly when the store size the
\* engine reports is strictly greater than the configured budget (a partition
\* exactly at the budget is not oversized), and the call changes neither the
\* engine topology nor the alias cache.
C31_OversizedIffOverBudget ==
    /\ [](sizing.called /\ ~sizing.raised =>
              (sizing.answer <=> OverBudget(sizing.size_in_bytes, sizing.max_size_gb)))
    /\ [][sizing' # sizing => UNCHANGED <<engine, cache, cm_cache, cm_timestamp>>]_vars

C31_Witness ==
    /\ sizing.called /\ ~sizing.raised
    /\ ~sizing.answer
    /\ sizing.size_in_bytes * sizing.max_size_gb.den = sizing.max_size_gb.num * BYTES_PER_GB
    /\ sizing.max_size_gb.den = 2
    /\ Cardinality(engine) = 3
    /\ cm_cache # None

\* C32: every construction of the datetime-based selector in one process
\* returns the same instance with the same cache manager; the cache manager
\* is created once, and a later construction, also with another client,
\* neither replaces the cache manager that holds the snapshot nor the client
\* used for reloads.
C32_OneSelectorOneCache ==
    /\ \A r, q \in singleton.returned :
          r.obj = q.obj /\ r.cache_manager = q.cache_manager
    /\ singleton.ncm <= 1
    /\ Len(singleton.objs) <= 1
    /\ \A r \in singleton.returned :
          r.loader_cm = r.cache_manager /\ r.client = singleton.reload_client
    /\ \A k \in 1..Len(singleton.objs) :
          singleton.objs[k].loader_client \in {"none", singleton.reload_client}

\* What select_indexes([coll], {gte: d, lte: d}) returns for the date of
\* item k once the write has returned, read from a snapshot loaded from the
\* engine as the write left it.
ReadBack(k) ==
    filter_indexes_by_datetime(load_aliases(engine)[coll], items[k], items[k])

\* The partitions a set of aliases names, by their start dates.
StartsOf(aliases) == {extract_first_date_from_index(a) : a \in aliases}

\* C33 as stated: after a single-item or batch write completes, the
\* partition each item dated d was targeted at is among the partitions that
\* the datetime-filtered select_indexes returns for the collection and the
\* range gte = lte = d.
C33_ReadAfterWriteFindsTarget ==
    Completed =>
        \A k \in 1..Len(actions) : StartsOf(actions[k]) \subseteq StartsOf(ReadBack(k))

\* C34 as stated: when prepare_bulk_actions returns, the target of every
\* returned action is an alias that exists in the engine at that moment; after
\* a batch split no action is addressed to the old partition's removed open
\* alias.
C34_ActionsTargetLiveAliases ==
    (Completed /\ op = "bulk") =>
        \A k \in 1..Len(actions) :
            \A a \in actions[k] : AliasExists(engine, coll, a)

\* C35 as stated: for every item with a valid datetime and every reachable
\* topology, the target that get_target_index resolves (and each target of
\* prepare_bulk_actions) is exactly one partition alias, never the empty
\* string and never a list of several partitions.
C35_TargetIsOnePartition ==
    Completed =>
        \A k \in 1..Len(actions) : Cardinality(actions[k]) = 1

\* A batch holding only the item of the kept single-item write has returned,
\* and the engine gave both writes the same answer about the size of the
\* open partition, if both asked.
ComparedWithSingle ==
    /\ Completed /\ op = "bulk"
    /\ pair.kept
    /\ Len(items) = 1
    /\ pair.oversized = "unknown" \/ oversized = "unknown" \/ pair.oversized = oversized

\* C36 as stated: for every topology and every item, prepare_bulk_actions on
\* a batch holding only that item produces the same resulting alias topology
\* and the same target partition as get_target_index for that item.
C36_OneItemBatchLikeSingle ==
    ComparedWithSingle =>
        /\ engine = pair.engine
        /\ actions[1] = pair.target

\* The batch write stopped at an item that carries no datetime.
RejectedForMissingDatetime ==
    /\ pc = "idle"
    /\ op = "bulk"
    /\ status \in {"error", "bad_request"}
    /\ idx \in 1..Len(items)
    /\ items[idx] = NoDatetime

\* C37 as stated: a batch write that fails because one of its items has a
\* missing datetime leaves the partition topology unchanged; no partition was
\* created and no alias was renamed on behalf of the rejected batch.
C37_RejectedBatchChangesNothing ==
    RejectedForMissingDatetime => engine = pre /\ nwrites = 0

\* Every reload that was started has stored its snapshot, and at least one
\* of them read the engine after the last change of the topology.
ReloadsCompletedAfterChange ==
    /\ \A t \in ReloadTasks : reloads.rpc[t] = "idle"
    /\ reloads.nchanges >= 1
    /\ reloads.read_since_change

\* C38 as stated: in non-blocking mode, when several alias reloads overlap
\* with a topology change, the snapshot left in the cache once all reloads
\* have completed is the engine's topology after the change; a response read
\* before the change never replaces a snapshot loaded after it.
C38_LastSnapshotIsCurrent ==
    ReloadsCompletedAfterChange => cache.data = load_aliases(engine)

====
